---- MODULE Spec2Model ----
(***************************************************************************)
(* Grounding search of questionanswering/construction/staged_generation.py *)
(*                                                                         *)
(* Python dictionaries are functions from a finite set of keys (strings)   *)
(* to values: "k in d" is  k \in DOMAIN d,  and d[k] = v is Put(d, k, v).  *)
(* Dictionaries are mutable objects, so they live in a heap (a sequence of *)
(* dictionaries; the address of an object is its index) and a graph's      *)
(* 'edgeSet' is a list of addresses of edge dictionaries.                  *)
(*                                                                         *)
(* F1 scores are floats in [0, 1]; they are kept in thousandths (0..1000)  *)
(* so that 0.9, 0.7 and 0.01 are the integers 900, 700 and 10.             *)
(***************************************************************************)
EXTENDS Integers, Sequences, FiniteSets, TLC

VARIABLES
    heap,               \* the object store: a sequence of dictionaries
    pc,                 \* position of the running call
    g,                  \* address of the graph the call was given
    grounding,          \* apply_grounding: the grounding dictionary
    ret,                \* the value the call returned (an address or a list)
    queries,            \* backend log: the graphs handed to query_graph_groundings
    kb,                 \* what the backend answers (label table, query answers)
    query_cache,        \* the backend's query cache, with the count of its clearings
    pool,               \* generate_with_gold: pool of possible parses
    positive_graphs,    \* generate_with_gold: accepted scored graphs
    negative_graphs,    \* generate_with_gold: groundings scored below 0.01
    popped,             \* generate_with_gold: the item g popped last
    suggested_graphs,   \* generate_with_gold: restricted candidates not yet tried
    chosen_graphs,      \* generate_with_gold: qualifying groundings of the iteration
    input_graphs,       \* ground_with(out)_gold: graphs not yet grounded
    not_chosen_graphs,  \* ground_with_gold: all_not_chosen_graphs of the running call
    generated_graphs,   \* generate_without_gold: graphs generated so far
    grounded_graphs     \* ground_without_gold: groundings found so far;
                        \* ground_one_with_gold: the groundings of the graph
                        \* grounded in the last step, with their scores

callVars == <<heap, g, grounding, queries, kb, query_cache>>

\* the variables of generate_without_gold alone
noGoldVars == <<generated_graphs, grounded_graphs>>

searchVars == <<pool, positive_graphs, negative_graphs, popped, suggested_graphs,
                chosen_graphs, input_graphs, not_chosen_graphs,
                generated_graphs, grounded_graphs>>

vars == <<heap, pc, g, grounding, ret, queries, kb, query_cache, pool, positive_graphs,
          negative_graphs, popped, suggested_graphs, chosen_graphs, input_graphs,
          not_chosen_graphs, generated_graphs, grounded_graphs>>

\* the variables of the search controllers while a single function is called
SearchIdle ==
    /\ pool = <<>>
    /\ positive_graphs = <<>>
    /\ negative_graphs = <<>>
    /\ popped = <<>>
    /\ suggested_graphs = <<>>
    /\ chosen_graphs = <<>>
    /\ input_graphs = <<>>
    /\ not_chosen_graphs = <<>>
    /\ generated_graphs = <<>>
    /\ grounded_graphs = <<>>

\* the variables of the single calls while a search controller runs
\* wdaccess: the cache before any query, never cleared
EmptyCache == [entries |-> <<>>, cleared |-> 0]

CallIdle ==
    /\ heap = <<>>
    /\ g = 0
    /\ grounding = <<>>
    /\ queries = <<>>
    /\ query_cache = EmptyCache
    /\ kb = <<>>

---------------------------------------------------------------------------
(* Bounds of the model *)

MaxEdges == 2

\* generate_with_gold: most candidates stages.restrict returns, most graphs
\* stages.expand returns, and, in SpecGold, most groundings of one graph and
\* most negative groundings the backend holds for one question
MaxRestrict == 2
MaxExpand == 2
MaxGroundings == 2
MaxNegatives == 1

\* generate_without_gold: most graphs the stages generate for one question
\* in SpecNoGold
MaxGenerated == 2

\* the wider runs of the two search controllers (SpecSearch): most negative
\* groundings of one question, and most graphs the stages generate for it
MaxWideNegatives == 2
MaxPooled == 3

---------------------------------------------------------------------------
(* Dictionaries and the heap *)

EmptyDict == <<>>

Put(d, k, v) == [f \in (DOMAIN d) \cup {k} |-> IF f = k THEN v ELSE d[f]]

Del(d, k) == [f \in (DOMAIN d) \ {k} |-> d[f]]

Has(d, k) == k \in DOMAIN d

\* d.get(k, default)
Get(d, k, default) == IF k \in DOMAIN d THEN d[k] ELSE default

\* a new object is appended to the heap; its address is the new length
Alloc(h, d) == [heap |-> Append(h, d), ref |-> Len(h) + 1]

\* h with the object at address a replaced by d (an in-place update)
Store(h, a, d) == [h EXCEPT ![a] = d]

\* g.get('edgeSet', []) for the graph at address a
EdgeSetOf(h, a) == Get(h[a], "edgeSet", <<>>)

\* the edge dictionaries (values, not addresses) of the graph at address a
EdgesOf(h, a) == [i \in 1..Len(EdgeSetOf(h, a)) |-> h[EdgeSetOf(h, a)[i]]]

\* not('type' in e and 'kbID' in e)
Ungrounded(e) == ~(Has(e, "type") /\ Has(e, "kbID"))

\* str(i) for the indices the model reaches
Str(i) == ToString(i)

\* the lists of at most n elements of S
RECURSIVE SeqsUpTo(_, _)
SeqsUpTo(S, n) ==
    IF n = 0 THEN { <<>> }
    ELSE LET shorter == SeqsUpTo(S, n - 1)
         IN  shorter \cup { Append(s, x) : s \in { t \in shorter : Len(t) = n - 1 }, x \in S }

---------------------------------------------------------------------------
(* graph.copy_graph: a new graph dictionary with a new dictionary for      *)
(* every edge; all fields are kept and a missing 'entities' becomes [].    *)

RECURSIVE CopyEdges(_, _, _)
CopyEdges(h, edges, done) ==
    IF edges = <<>> THEN [heap |-> h, refs |-> done]
    ELSE LET a == Alloc(h, h[Head(edges)])
         IN  CopyEdges(a.heap, Tail(edges), Append(done, a.ref))

copy_graph(h, a) ==
    LET c  == CopyEdges(h, EdgeSetOf(h, a), <<>>)
        d0 == Put(h[a], "edgeSet", c.refs)
        d1 == Put(d0, "entities", Get(h[a], "entities", <<>>))
    IN  Alloc(c.heap, d1)

---------------------------------------------------------------------------
(* apply_grounding *)

\* ApplyToEdge with the hop always bound to hopDown (the 'hopUp' test dropped)
ApplyToEdge_alwaysHopDown(e, i, gr) ==
    LET hopKey == "hop" \o Str(i) \o "v"
        e1 == IF Has(gr, "e2" \o Str(i))
              THEN Put(e, "rightkbID", gr["e2" \o Str(i)]) ELSE e
        e2 == IF Has(gr, hopKey) THEN Put(e1, "hopDown", gr[hopKey]) ELSE e1
        e3 == IF Has(gr, "r" \o Str(i) \o "d")
              THEN Put(Put(e2, "kbID", gr["r" \o Str(i) \o "d"]), "type", "direct")
              ELSE IF Has(gr, "r" \o Str(i) \o "r")
              THEN Put(Put(e2, "kbID", gr["r" \o Str(i) \o "r"]), "type", "reverse")
              ELSE IF Has(gr, "r" \o Str(i) \o "v")
              THEN Put(Put(e2, "kbID", gr["r" \o Str(i) \o "v"]), "type", "v-structure")
              ELSE e2
    IN  e3

\* the body of the for loop for the edge dictionary e at (Python) index i
ApplyToEdge(e, i, gr) ==
    LET hopKey == "hop" \o Str(i) \o "v"
        e1 == IF Has(gr, "e2" \o Str(i))
              THEN Put(e, "rightkbID", gr["e2" \o Str(i)]) ELSE e
        e2 == IF Has(gr, hopKey)
              THEN IF Has(e1, "hopUp")
                   THEN Put(e1, "hopUp", gr[hopKey])
                   ELSE Put(e1, "hopDown", gr[hopKey])
              ELSE e1
        e3 == IF Has(gr, "r" \o Str(i) \o "d")
              THEN Put(Put(e2, "kbID", gr["r" \o Str(i) \o "d"]), "type", "direct")
              ELSE IF Has(gr, "r" \o Str(i) \o "r")
              THEN Put(Put(e2, "kbID", gr["r" \o Str(i) \o "r"]), "type", "reverse")
              ELSE IF Has(gr, "r" \o Str(i) \o "v")
              THEN Put(Put(e2, "kbID", gr["r" \o Str(i) \o "v"]), "type", "v-structure")
              ELSE e2
    IN  e3

\* the for loop over enumerate(grounded.get('edgeSet', [])), from position k
RECURSIVE ApplyLoop(_, _, _, _)
ApplyLoop(h, refs, k, gr) ==
    IF k > Len(refs) THEN h
    ELSE ApplyLoop(Store(h, refs[k], ApplyToEdge(h[refs[k]], k - 1, gr)),
                   refs, k + 1, gr)

\* apply_grounding working on g itself instead of on graph.copy_graph(g)
apply_grounding_inPlace(h, a, gr) ==
    [heap |-> ApplyLoop(h, EdgeSetOf(h, a), 1, gr), ref |-> a]

\* the loop of apply_grounding run on the copy c
ApplyToCopy(c, gr) ==
    [heap |-> ApplyLoop(c.heap, EdgeSetOf(c.heap, c.ref), 1, gr),
     ref  |-> c.ref]

apply_grounding(h, a, gr) == ApplyToCopy(copy_graph(h, a), gr)

---------------------------------------------------------------------------
(* wdaccess.query_graph_groundings: the backend is handed the graph at     *)
(* address a; the log keeps the graph's edges as they are at that moment,  *)
(* and the k-th query of a call is answered with answers[k] (a list of     *)
(* grounding dictionaries, or the failure marker None of pass_exception).  *)

QueryFailed == "None"

\* wdaccess.clear_cache() that counts the call and keeps the entries
clear_cache_keeping(c) == [c EXCEPT !.cleared = @ + 1]

\* wdaccess.clear_cache(): the cache forgets every entry
clear_cache(c) == [entries |-> <<>>, cleared |-> c.cleared + 1]

\* a query made with use_cache=True leaves its entry in the cache, one entry
\* for each distinct query
CachePut(c, q) ==
    IF \E i \in 1..Len(c.entries) : c.entries[i] = q THEN c
    ELSE [c EXCEPT !.entries = Append(@, q)]

RECURSIVE CacheAll(_, _)
CacheAll(c, qs) ==
    IF qs = <<>> THEN c ELSE CacheAll(CachePut(c, Head(qs)), Tail(qs))

Query(st, a, answers) ==
    LET k == Len(st.log) + 1
    IN  [heap    |-> st.heap,
         log     |-> Append(st.log, EdgesOf(st.heap, a)),
         results |-> IF answers[k] = QueryFailed THEN st.results
                     ELSE st.results \o answers[k]]

---------------------------------------------------------------------------
(* find_groundings *)

\* [e for e in t.get('edgeSet', []) if not('type' in e and 'kbID' in e)]
UngroundedRefs(h, a) == SelectSeq(EdgeSetOf(h, a), LAMBDA r : Ungrounded(h[r]))

\* [e for e in g.get('edgeSet', [])], addresses of all the edges
AllRefs(h, a) == EdgeSetOf(h, a)

\* list(itertools.product(*[['direct', 'reverse']]*n)): lexicographic, the
\* last position changing fastest
RECURSIVE TypeCombinations(_)
TypeCombinations(n) ==
    IF n = 0 THEN << <<>> >>
    ELSE LET prefixes == TypeCombinations(n - 1)
             Expand[k \in 0..Len(prefixes)] ==
                 IF k = 0 THEN <<>>
                 ELSE Expand[k - 1] \o << Append(prefixes[k], "direct"),
                                          Append(prefixes[k], "reverse") >>
         IN  Expand[Len(prefixes)]

\* for i, edge in enumerate(<ungrounded edges>): edge['type'] = types[i]
RECURSIVE SetTypes(_, _, _)
SetTypes(h, refs, types) ==
    IF refs = <<>> THEN h
    ELSE SetTypes(Store(h, Head(refs), Put(h[Head(refs)], "type", Head(types))),
                  Tail(refs), Tail(types))

\* the for loop over edge_type_combinations
RECURSIVE QueryCombinations(_, _, _, _)
QueryCombinations(st, a, combos, answers) ==
    IF combos = <<>> THEN st
    ELSE LET t  == copy_graph(st.heap, a)
             h2 == SetTypes(t.heap, UngroundedRefs(t.heap, t.ref), Head(combos))
         IN  QueryCombinations(Query([st EXCEPT !.heap = h2], t.ref, answers),
                               a, Tail(combos), answers)

TriggerTokens == {"play", "played", "plays"}

\* any(w in set(g.get('tokens', [])) for w in {'play', 'played', 'plays'})
HasTrigger(h, a) ==
    LET tokens == Get(h[a], "tokens", <<>>)
    IN  \E w \in TriggerTokens : \E k \in 1..Len(tokens) : tokens[k] = w

\* find_groundings with the hop test made on the edges in refs
FindGroundingsOver(h, a, log, answers, refs) ==
    LET num == Len(UngroundedRefs(h, a))
        st0 == [heap |-> h, log |-> log, results |-> <<>>]
        st1 == IF ~ \E k \in 1..Len(refs) :
                       Has(h[refs[k]], "hopUp") \/ Has(h[refs[k]], "hopDown")
               THEN Query(st0, a, answers)
               ELSE QueryCombinations(st0, a, TypeCombinations(num), answers)
    IN  IF HasTrigger(h, a) /\ num = 1
        THEN LET t    == copy_graph(st1.heap, a)
                 edge == UngroundedRefs(t.heap, t.ref)[1]
                 h2   == Store(t.heap, edge, Put(t.heap[edge], "type", "v-structure"))
             IN  Query([st1 EXCEPT !.heap = h2], t.ref, answers)
        ELSE st1

\* find_groundings with the hop test made on every edge, grounded or not
find_groundings_anyHop(h, a, log, answers) ==
    FindGroundingsOver(h, a, log, answers, AllRefs(h, a))

find_groundings(h, a, log, answers) ==
    FindGroundingsOver(h, a, log, answers, UngroundedRefs(h, a))

---------------------------------------------------------------------------
(* add_canonical_labels_to_entities *)

\* a value that is a string or None is a list of at most one string:
\* None is the empty list
None == <<>>

Some(v) == <<v>>

\* d.get(k), which is None when k is not in d
GetOrNone(d, k) == IF Has(d, k) THEN Some(d[k]) ELSE None

\* the truth value of a string or None: None and '' are false
Truthy(o) == o # None /\ o[1] # ""

\* the loop body with and without the test 'canonical_right' not in edge
LabelEdge(e, labels, keepExisting) ==
    LET entitykbID == GetOrNone(e, "rightkbID")
    IN  IF Truthy(entitykbID) /\ (keepExisting => ~Has(e, "canonical_right"))
        THEN LET entity_label == labels[entitykbID[1]]
             IN  IF Truthy(entity_label)
                 THEN Put(e, "canonical_right", entity_label[1]) ELSE e
        ELSE e

RECURSIVE LabelLoop(_, _, _, _)
LabelLoop(h, refs, labels, keepExisting) ==
    IF refs = <<>> THEN h
    ELSE LabelLoop(Store(h, Head(refs), LabelEdge(h[Head(refs)], labels, keepExisting)),
                   Tail(refs), labels, keepExisting)

\* the function with the test 'canonical_right' not in edge left out
add_canonical_labels_overwriting(h, a, labels) ==
    [heap |-> LabelLoop(h, EdgeSetOf(h, a), labels, FALSE), ref |-> a]

\* labels is wdaccess.label_entity as a table
add_canonical_labels_to_entities(h, a, labels) ==
    [heap |-> LabelLoop(h, EdgeSetOf(h, a), labels, TRUE), ref |-> a]

---------------------------------------------------------------------------
(* approximate_groundings *)

\* wdaccess.property_whitelist: relation identifiers without the marker
property_whitelist == {"P31", "P179", "P17"}

\* s[:-1]
StripLast(s) == SubSeq(s, 1, Len(s) - 1)

\* "kbID" in e and e["kbID"][:-1] in wdaccess.property_whitelist
EdgeInWhitelist(e) == Has(e, "kbID") /\ StripLast(e["kbID"]) \in property_whitelist

\* [apply_grounding(t, p) for p in <answer>] for the single-edge graph at
\* address t; keepAll switches the whitelist filter of the next line off.
\* The result lists the addresses of the edges that are kept.
\* kept with the edge of the grounded single-edge graph r, if it passes
KeepEdge(r, kept, keepAll) ==
    LET e == EdgeSetOf(r.heap, r.ref)[1]
    IN  IF keepAll \/ EdgeInWhitelist(r.heap[e]) THEN Append(kept, e) ELSE kept

RECURSIVE GroundEdge(_, _, _, _, _)
RECURSIVE GroundEdgeNext(_, _, _, _, _)
GroundEdge(h, t, answer, kept, keepAll) ==
    IF answer = <<>> THEN [heap |-> h, refs |-> kept]
    ELSE GroundEdgeNext(apply_grounding(h, t, Head(answer)), t, Tail(answer),
                        kept, keepAll)

\* the rest of the list after the grounded graph r
GroundEdgeNext(r, t, answer, kept, keepAll) ==
    GroundEdge(r.heap, t, answer, KeepEdge(r, kept, keepAll), keepAll)

\* the first for loop, from position k of the edgeSet
RECURSIVE SeparateGroundings(_, _, _, _, _, _)
RECURSIVE SeparateQueried(_, _, _, _, _, _, _)
RECURSIVE SeparateGrounded(_, _, _, _, _, _, _)
SeparateGroundings(st, refs, k, answers, separate, keepAll) ==
    IF k > Len(refs) THEN [heap |-> st.heap, log |-> st.log, separate |-> separate]
    ELSE IF Ungrounded(st.heap[refs[k]])
    THEN SeparateQueried(st, Alloc(st.heap, [edgeSet |-> << refs[k] >>]),
                         refs, k, answers, separate, keepAll)
    ELSE SeparateGroundings(st, refs, k + 1, answers,
                            Append(separate, << refs[k] >>), keepAll)

\* the query of the single-edge graph t and the grounding of its answer
SeparateQueried(st, t, refs, k, answers, separate, keepAll) ==
    SeparateGrounded(Query([st EXCEPT !.heap = t.heap], t.ref, answers), t.ref,
                     refs, k, answers, separate, keepAll)

SeparateGrounded(q, t, refs, k, answers, separate, keepAll) ==
    LET eg == GroundEdge(q.heap, t, answers[Len(q.log)], <<>>, keepAll)
    IN  SeparateGroundings([q EXCEPT !.heap = eg.heap], refs, k + 1, answers,
                           Append(separate, eg.refs), keepAll)

\* list(itertools.product(*lists)): lexicographic, the last list fastest
RECURSIVE Product(_)
Product(lists) ==
    IF lists = <<>> THEN << <<>> >>
    ELSE LET prefixes == Product(SubSeq(lists, 1, Len(lists) - 1))
             last     == lists[Len(lists)]
             Ext[k \in 0..Len(prefixes)] ==
                 IF k = 0 THEN <<>>
                 ELSE Ext[k - 1] \o [j \in 1..Len(last) |-> Append(prefixes[k], last[j])]
         IN  Ext[Len(prefixes)]

\* the second for loop: one copy of g per element of the product
RECURSIVE MaterializeGraphs(_, _, _, _)
RECURSIVE MaterializeNext(_, _, _, _)
MaterializeGraphs(h, a, edge_sets, graph_groundings) ==
    IF edge_sets = <<>> THEN [heap |-> h, refs |-> graph_groundings]
    ELSE MaterializeNext(copy_graph(h, a), a, edge_sets, graph_groundings)

\* new_g['edgeSet'] = list(edge_set); graph_groundings.append(new_g)
MaterializeNext(new_g, a, edge_sets, graph_groundings) ==
    MaterializeGraphs(Store(new_g.heap, new_g.ref,
                            Put(new_g.heap[new_g.ref], "edgeSet", Head(edge_sets))),
                      a, Tail(edge_sets), Append(graph_groundings, new_g.ref))

\* the second loop run on the result sg of the first
MaterializeSeparate(sg, a) ==
    LET mg == MaterializeGraphs(sg.heap, a, Product(sg.separate), <<>>)
    IN  [heap |-> mg.heap, log |-> sg.log, refs |-> mg.refs]

ApproximateGroundingsWith(h, a, log, answers, keepAll) ==
    MaterializeSeparate(
        SeparateGroundings([heap |-> h, log |-> log, results |-> <<>>],
                           EdgeSetOf(h, a), 1, answers, <<>>, keepAll),
        a)

\* approximate_groundings without the whitelist filter of line 154
approximate_groundings_unfiltered(h, a, log, answers) ==
    ApproximateGroundingsWith(h, a, log, answers, TRUE)

approximate_groundings(h, a, log, answers) ==
    ApproximateGroundingsWith(h, a, log, answers, FALSE)

---------------------------------------------------------------------------
(* generate_with_gold and ground_with_gold.  A grounded graph is known to  *)
(* the controller only through the F1 its denotation scores against the    *)
(* gold answers, so it is the record of that score.  A scored graph is the *)
(* tuple <<graph, f1>> and a negative one the tuple <<graph>>, as          *)
(* (graph, (p, r, f1), answers) and (graph,) in the code.                  *)

StopF1 == 900
AcceptF1 == 700
NegativeF1 == 10
MaxChosen == 3

\* the F1 values the groundings of the question score, in thousandths: none,
\* below 0.7, 0.7 itself (the least that is accepted as it is), and 0.9 or
\* more
F1Values == {0, 400, 700, 950}

\* g[1][2]
F1Of(item) == item[2]

\* ground_one_with_gold with chosen graphs scoring >= min_fscore
ground_one_with_gold_atLeast(grounded, min_fscore) ==
    [chosen     |-> [i \in 1..Len(SelectSeq(grounded, LAMBDA x : x.f1 >= min_fscore)) |->
                        << SelectSeq(grounded, LAMBDA x : x.f1 >= min_fscore)[i],
                           SelectSeq(grounded, LAMBDA x : x.f1 >= min_fscore)[i].f1 >>],
     not_chosen |-> [i \in 1..Len(SelectSeq(grounded, LAMBDA x : x.f1 < NegativeF1)) |->
                        << SelectSeq(grounded, LAMBDA x : x.f1 < NegativeF1)[i] >>]]

\* line 134 taking only the groundings that are not chosen
ground_one_with_gold_disjoint(grounded, min_fscore) ==
    [chosen     |-> [i \in 1..Len(SelectSeq(grounded, LAMBDA x : x.f1 > min_fscore)) |->
                        << SelectSeq(grounded, LAMBDA x : x.f1 > min_fscore)[i],
                           SelectSeq(grounded, LAMBDA x : x.f1 > min_fscore)[i].f1 >>],
     not_chosen |-> [i \in 1..Len(SelectSeq(grounded, LAMBDA x : x.f1 < NegativeF1 /\ ~(x.f1 > min_fscore))) |->
                        << SelectSeq(grounded, LAMBDA x : x.f1 < NegativeF1 /\ ~(x.f1 > min_fscore))[i] >>]]

\* grounded (grounded_graphs in the code) are the groundings of s_g applied to it; the F1 of a
\* grounded graph is evaluation_results[i][2]
ground_one_with_gold(grounded, min_fscore) ==
    LET chosen     == SelectSeq(grounded, LAMBDA x : x.f1 > min_fscore)
        not_chosen == SelectSeq(grounded, LAMBDA x : x.f1 < NegativeF1)
    IN  [chosen     |-> [i \in 1..Len(chosen) |-> << chosen[i], chosen[i].f1 >>],
         not_chosen |-> [i \in 1..Len(not_chosen) |-> << not_chosen[i] >>]]

\* sorted(items, key=lambda x: x[1][2], reverse=True): stable, equal keys
\* keep their order
RECURSIVE SortedByF1(_)
SortedByF1(items) ==
    IF items = <<>> THEN <<>>
    ELSE LET rest == SortedByF1(SubSeq(items, 1, Len(items) - 1))
             x    == items[Len(items)]
             n    == Cardinality({ i \in 1..Len(rest) : F1Of(rest[i]) >= F1Of(x) })
         IN  SubSeq(rest, 1, n) \o <<x>> \o SubSeq(rest, n + 1, Len(rest))

\* the while loop of ground_with_gold; groundings[k] are the grounded graphs
\* of the k-th input graph
RECURSIVE GroundWhile(_, _, _, _)
GroundWhile(groundings, min_fscore, all_chosen, all_not_chosen) ==
    IF groundings # <<>> /\ Len(all_chosen) = 0
    THEN LET r == ground_one_with_gold(Head(groundings), min_fscore)
         IN  GroundWhile(Tail(groundings), min_fscore,
                         all_chosen \o r.chosen, all_not_chosen \o r.not_chosen)
    ELSE [chosen |-> all_chosen, not_chosen |-> all_not_chosen]

\* the sort of line 111 without the cut of lines 112-113
TopChosen_uncut(all_chosen) == SortedByF1(all_chosen)

\* all_chosen_graphs[:3] without the sort of line 111
TopChosen_unsorted(all_chosen) ==
    IF Len(all_chosen) > MaxChosen THEN SubSeq(all_chosen, 1, MaxChosen) ELSE all_chosen

\* lines 111-113: the chosen graphs by F1 descending, at most three
TopChosen(all_chosen) ==
    LET sorted == SortedByF1(all_chosen)
    IN  IF Len(sorted) > MaxChosen THEN SubSeq(sorted, 1, MaxChosen) ELSE sorted

ground_with_gold(groundings, min_fscore) ==
    LET w == GroundWhile(groundings, min_fscore, <<>>, <<>>)
    IN  [chosen |-> TopChosen(w.chosen), not_chosen |-> w.not_chosen]

\* pool.pop() in place of pool.pop(0)
PopLast(items) ==
    [item |-> items[Len(items)], rest |-> SubSeq(items, 1, Len(items) - 1)]

\* g = pool.pop(0) (lines 39 and 252)
PopFirst(items) == [item |-> Head(items), rest |-> Tail(items)]

\* master_g_fscore <= 0.7 in place of master_g_fscore < 0.7
Restricts_atMost(item) == F1Of(item) <= AcceptF1

\* line 42: master_g_fscore < 0.7, the popped item is restricted further
Restricts(item) == F1Of(item) < AcceptF1

\* line 62: pool.extend(chosen_graphs)
ExtendedPool(items, chosen) == items \o chosen

\* positive_graphs[0][1][2] in place of positive_graphs[-1][1][2]
FirstPositiveF1(positive) ==
    IF Len(positive) > 0 THEN F1Of(positive[1]) ELSE 0

\* (positive_graphs[-1][1][2] if len(positive_graphs) > 0 else 0.0)
LastPositiveF1(positive) ==
    IF Len(positive) > 0 THEN F1Of(positive[Len(positive)]) ELSE 0

\* positive_graphs = [g] in place of positive_graphs.append(g)
AcceptPositive_replacing(positive, item) == << item >>

\* positive_graphs.append(g)
AcceptPositive(positive, item) == Append(positive, item)

\* return positive_graphs in place of return positive_graphs + negative_graphs
Returned_positives(positive, negative) == positive

\* line 71: return positive_graphs + negative_graphs
Returned(positive, negative) == positive \o negative

\* the test of the while loop of generate_with_gold
LoopContinues == pool # <<>> /\ LastPositiveF1(positive_graphs) < StopF1

\* while suggested_graphs in place of while not chosen_graphs and suggested_graphs
TriesNext_all == suggested_graphs # <<>>

\* line 49: the test of the loop over the restricted candidates
TriesNext == chosen_graphs = <<>> /\ suggested_graphs # <<>>

\* the grounded graphs of one graph: at most MaxGroundings graphs, each with
\* the F1 its denotation scores
GroundedGraphs == SeqsUpTo({ [f1 |-> v] : v \in F1Values }, MaxGroundings)

\* longer and lower scoring lists of grounded graphs: four groundings that
\* all score more than an item of F1 0, and groundings scoring 0.005, which
\* is more than 0 and less than 0.01
LongGroundings ==
    { [i \in 1..Len(scores) |-> [f1 |-> scores[i]]] :
          scores \in { <<400, 700, 400, 950>>, <<5, 0>>, <<5>> } }

WideGroundings == GroundedGraphs \cup LongGroundings

\* the negatives kept so far, those of a running ground_with_gold included
NegativesSoFar == Len(negative_graphs) + Len(not_chosen_graphs)

Negatives(grounded) == Len(SelectSeq(grounded, LAMBDA x : x.f1 < NegativeF1))

---------------------------------------------------------------------------
(* Inputs of the single-call specifications *)

\* edge dictionaries a caller may pass
EdgeInputs ==
    { EmptyDict,
      [type |-> "direct", kbID |-> "P179v"],
      [hopUp |-> "P674v"],
      [hopDown |-> "P674v"],
      [hopUp |-> "P674v", hopDown |-> "P175v", rightkbID |-> "Q571"] }

\* the optional fields of a graph dictionary besides 'edgeSet'
GraphFieldInputs ==
    { EmptyDict,
      [entities |-> << <<"Texas Rangers", "URL">> >>],
      [tokens |-> <<"who", "plays">>],
      [entities |-> << <<"Texas Rangers", "URL">> >>, tokens |-> <<"who", "plays">>] }

\* the heap holding one graph with the given edge dictionaries; the graph
\* dictionary is the last object
GraphHeap(edges, fields) ==
    Append(edges, Put(fields, "edgeSet", [i \in 1..Len(edges) |-> i]))

\* the keys a grounding may carry for edge i, by kind
KeyOf(kind, i) ==
    CASE kind = "e2"    -> "e2" \o Str(i)
      [] kind = "hop"   -> "hop" \o Str(i) \o "v"
      [] kind = "hopup" -> "hopup" \o Str(i) \o "v"
      [] kind = "rd"    -> "r" \o Str(i) \o "d"
      [] kind = "rr"    -> "r" \o Str(i) \o "r"
      [] kind = "rv"    -> "r" \o Str(i) \o "v"

ValueOf(kind) ==
    CASE kind = "e2"    -> "Q18"
      [] kind = "hop"   -> "P131v"
      [] kind = "hopup" -> "P131v"
      [] kind = "rd"    -> "P31v"
      [] kind = "rr"    -> "P39v"
      [] kind = "rv"    -> "P17v"

\* the kinds of key a backend answer carries for one edge
BindingShapes ==
    { {}, {"e2"}, {"hop"}, {"rd"}, {"rr"}, {"rv"}, {"rd", "rr"}, {"rr", "rv"},
      {"hop", "rd"}, {"e2", "hop", "rv"}, {"hopup", "rv"} }

\* the grounding dictionary with the keys of shape[i + 1] for every index i
GroundingOf(shape) ==
    LET kinds == UNION { shape[j] : j \in DOMAIN shape }
        pairs == { p \in kinds \X (0..(Len(shape) - 1)) : p[1] \in shape[p[2] + 1] }
    IN  [key \in { KeyOf(p[1], p[2]) : p \in pairs } |->
            ValueOf((CHOOSE p \in pairs : KeyOf(p[1], p[2]) = key)[1])]

GroundingInputs == { GroundingOf(s) : s \in [1..MaxEdges -> BindingShapes] }

---------------------------------------------------------------------------
(* Specification of one call of apply_grounding *)

ApplyInit ==
    \E edges \in SeqsUpTo(EdgeInputs, MaxEdges), fields \in GraphFieldInputs,
       gr \in GroundingInputs :
        /\ heap = GraphHeap(edges, fields)
        /\ g = Len(edges) + 1
        /\ grounding = gr
        /\ pc = "call"
        /\ ret = 0
        /\ queries = <<>>
        /\ query_cache = EmptyCache
        /\ kb = <<>>
        /\ SearchIdle

ApplyGrounding ==
    /\ pc = "call"
    /\ LET r == apply_grounding(heap, g, grounding)
       IN  /\ heap' = r.heap
           /\ ret' = r.ref
    /\ pc' = "done"
    /\ UNCHANGED <<g, grounding, queries, kb, query_cache>>
    /\ UNCHANGED searchVars

ApplyNext == ApplyGrounding

SpecApply == ApplyInit /\ [][ApplyNext]_vars

---------------------------------------------------------------------------
(* Properties of apply_grounding *)

ApplyStep == pc = "call" /\ pc' = "done"

\* field f is the same (present with the same value, or absent) in d and e
SameField(d, e, f) == (Has(d, f) <=> Has(e, f)) /\ (Has(d, f) => d[f] = e[f])

\* C5: apply_grounding(g, grounding) changes no object that existed before
\* the call (g and its edges are as they were; the result and its edges are
\* new objects), and with an empty grounding the result equals g field by
\* field and edge by edge, except that 'entities' is present (empty when g
\* had none).
C5_ApplyIsPure ==
    [][ApplyStep =>
        /\ Len(heap') >= Len(heap)
        /\ \A a \in 1..Len(heap) : heap'[a] = heap[a]
        /\ ret' \notin 1..Len(heap)
        /\ \A k \in 1..Len(EdgeSetOf(heap', ret')) :
              EdgeSetOf(heap', ret')[k] \notin 1..Len(heap)
        /\ (DOMAIN grounding = {}) =>
              /\ DOMAIN heap'[ret'] = (DOMAIN heap[g]) \cup {"entities"}
              /\ \A f \in (DOMAIN heap[g]) \ {"edgeSet"} : heap'[ret'][f] = heap[g][f]
              /\ heap'[ret']["entities"] = Get(heap[g], "entities", <<>>)
              /\ EdgesOf(heap', ret') = EdgesOf(heap, g)
       ]_vars

C5_Witness ==
    /\ pc = "done"
    /\ DOMAIN grounding = {}
    /\ ~Has(heap[g], "entities")
    /\ Len(EdgeSetOf(heap, g)) = 2
    /\ heap[ret]["entities"] = <<>>
    /\ EdgesOf(heap, ret) = EdgesOf(heap, g)

AtMostOneHop(e) == ~(Has(e, "hopUp") /\ Has(e, "hopDown"))

\* C9: for every edge index i, hop{i}v is bound to hopUp when the input edge
\* has hopUp and to hopDown otherwise; an edge with at most one of
\* hopUp/hopDown keeps at most one; a field whose key the grounding does not
\* carry for index i is left as it was.
C9_HopAndFrame ==
    [][ApplyStep =>
        /\ Len(EdgeSetOf(heap', ret')) = Len(EdgeSetOf(heap, g))
        /\ \A k \in 1..Len(EdgeSetOf(heap, g)) :
            LET e   == heap[EdgeSetOf(heap, g)[k]]
                e2  == heap'[EdgeSetOf(heap', ret')[k]]
                i   == k - 1
                hop == "hop" \o Str(i) \o "v"
            IN  /\ Has(grounding, hop) =>
                      IF Has(e, "hopUp")
                      THEN e2["hopUp"] = grounding[hop] /\ SameField(e2, e, "hopDown")
                      ELSE e2["hopDown"] = grounding[hop] /\ ~Has(e2, "hopUp")
                /\ AtMostOneHop(e) => AtMostOneHop(e2)
                /\ ~Has(grounding, hop) =>
                      SameField(e2, e, "hopUp") /\ SameField(e2, e, "hopDown")
                /\ ~Has(grounding, "e2" \o Str(i)) => SameField(e2, e, "rightkbID")
                /\ (\A t \in {"d", "r", "v"} : ~Has(grounding, "r" \o Str(i) \o t)) =>
                      SameField(e2, e, "kbID") /\ SameField(e2, e, "type")
                /\ \A f \in ((DOMAIN e) \cup (DOMAIN e2))
                              \ {"hopUp", "hopDown", "rightkbID", "kbID", "type"} :
                      SameField(e2, e, f)
       ]_vars

C9_Witness ==
    /\ pc = "done"
    /\ Len(EdgeSetOf(heap, g)) = 2
    /\ DOMAIN heap[EdgeSetOf(heap, g)[2]] = {"hopUp"}
    /\ Has(grounding, "hop1v")
    /\ heap[EdgeSetOf(heap, ret)[2]] =
          [hopUp |-> grounding["hop1v"], kbID |-> "P31v", type |-> "direct"]
    /\ heap[EdgeSetOf(heap, ret)[1]] = heap[EdgeSetOf(heap, g)[1]]

\* C10: an empty edge at index i grounded with r{i}v and hopup{i}v becomes
\* {'type': 'v-structure', 'kbID': <relation>, 'hopUp': <hop>}.
C10_DoctestHopUp ==
    pc = "done" =>
        \A k \in 1..Len(EdgeSetOf(heap, g)) :
            LET i  == k - 1
                rv == "r" \o Str(i) \o "v"
                hu == "hopup" \o Str(i) \o "v"
            IN  (/\ DOMAIN heap[EdgeSetOf(heap, g)[k]] = {}
                 /\ Has(grounding, rv)
                 /\ Has(grounding, hu)) =>
                    heap[EdgeSetOf(heap, ret)[k]] =
                        [type |-> "v-structure", kbID |-> grounding[rv],
                         hopUp |-> grounding[hu]]

---------------------------------------------------------------------------
(* Specification of one call of find_groundings *)

FindEdgeInputs ==
    { EmptyDict,
      [rightkbID |-> "Q571"],
      [type |-> "reverse"],
      [hopUp |-> "P674v"],
      [hopDown |-> "P674v", kbID |-> "P175v"],
      [type |-> "direct", kbID |-> "P179v"],
      [type |-> "direct", kbID |-> "P179v", hopUp |-> "P674v"] }

TokenInputs ==
    { EmptyDict,
      [tokens |-> <<"who", "plays">>],
      [tokens |-> <<"Who", "Played">>],
      [tokens |-> <<"play">>, entities |-> <<>>] }

\* one answer of the backend: no grounding, or one grounding
AnswerInputs == { <<>>, << [r0d |-> "P31v"] >> }

\* the answers to n successive queries: the same answer every time, or an
\* answer to every other query only
AnswerPatterns(n) ==
    { [k \in 1..n |-> a] : a \in AnswerInputs }
        \cup { [k \in 1..n |-> IF k % 2 = 1 THEN a ELSE <<>>] : a \in AnswerInputs }

\* the most queries one call makes
RECURSIVE Pow2(_)
Pow2(n) == IF n = 0 THEN 1 ELSE 2 * Pow2(n - 1)

FindInit ==
    \E edges \in SeqsUpTo(FindEdgeInputs, MaxEdges), fields \in TokenInputs,
       answers \in AnswerPatterns(Pow2(MaxEdges) + 1) :
        /\ heap = GraphHeap(edges, fields)
        /\ g = Len(edges) + 1
        /\ kb = answers
        /\ grounding = EmptyDict
        /\ pc = "call"
        /\ ret = 0
        /\ queries = <<>>
        /\ query_cache = EmptyCache
        /\ SearchIdle

FindGroundings ==
    /\ pc = "call"
    /\ LET r == find_groundings(heap, g, queries, kb)
       IN  /\ heap' = r.heap
           /\ queries' = r.log
           /\ ret' = r.results
    /\ pc' = "done"
    /\ UNCHANGED <<g, grounding, kb, query_cache>>
    /\ UNCHANGED searchVars

FindNext == FindGroundings

SpecFind == FindInit /\ [][FindNext]_vars

---------------------------------------------------------------------------
(* Properties of find_groundings *)

\* positions of the ungrounded edges of the graph the call was given
UngroundedPositions ==
    { k \in 1..Len(EdgeSetOf(heap, g)) : Ungrounded(heap[EdgeSetOf(heap, g)[k]]) }

HopToGround ==
    \E k \in UngroundedPositions :
        Has(heap[EdgeSetOf(heap, g)[k]], "hopUp") \/ Has(heap[EdgeSetOf(heap, g)[k]], "hopDown")

VStructureExpected == Cardinality(UngroundedPositions) = 1 /\ HasTrigger(heap, g)

\* the types query q gives to the ungrounded positions
TypesIn(q) == [k \in UngroundedPositions |-> Get(q[k], "type", "unset")]

\* the queries that are not the v-structure query
PlainQueries ==
    { k \in 1..Len(queries) : \A p \in UngroundedPositions : TypesIn(queries[k])[p] # "v-structure" }

\* C6: one query when no ungrounded edge carries a hop, 2^n queries (every
\* direct/reverse assignment of the n ungrounded edges exactly once) when
\* one does, and one more query, with type v-structure, iff n = 1 and a
\* trigger token is present.
C6_QueryCount ==
    pc = "done" =>
        LET n == Cardinality(UngroundedPositions)
        IN  /\ Len(queries) = (IF HopToGround THEN Pow2(n) ELSE 1)
                              + (IF VStructureExpected THEN 1 ELSE 0)
            /\ Cardinality(PlainQueries) = (IF HopToGround THEN Pow2(n) ELSE 1)
            /\ PlainQueries = 1..Cardinality(PlainQueries)
            /\ HopToGround =>
                  /\ { TypesIn(queries[k]) : k \in PlainQueries }
                        = [UngroundedPositions -> {"direct", "reverse"}]
                  /\ \A j, k \in PlainQueries :
                        TypesIn(queries[j]) = TypesIn(queries[k]) => j = k
            /\ ~HopToGround => queries[1] = EdgesOf(heap, g)
            /\ VStructureExpected <=>
                  \E k \in 1..Len(queries) : \E p \in UngroundedPositions :
                      TypesIn(queries[k])[p] = "v-structure"

C6_Witness ==
    /\ pc = "done"
    /\ Cardinality(UngroundedPositions) = 2
    /\ HopToGround
    /\ Len(queries) = 4

---------------------------------------------------------------------------
(* Specification of repeated calls of add_canonical_labels_to_entities on  *)
(* one graph                                                               *)

LabelEdgeInputs ==
    { EmptyDict,
      [rightkbID |-> "Q76"],
      [rightkbID |-> "Q571"],
      [rightkbID |-> ""],
      [canonical_right |-> "book"],
      [rightkbID |-> "Q76", canonical_right |-> "Obama"],
      [rightkbID |-> "Q571", canonical_right |-> ""] }

EntityIds == {"Q76", "Q571"}

\* what wdaccess.label_entity may return
LabelAnswers == {None, Some(""), Some("Barack Obama")}

LabelInit ==
    \E edges \in SeqsUpTo(LabelEdgeInputs, MaxEdges), labels \in [EntityIds -> LabelAnswers] :
        /\ heap = GraphHeap(edges, EmptyDict)
        /\ g = Len(edges) + 1
        /\ kb = labels
        /\ grounding = EmptyDict
        /\ pc = "call"
        /\ ret = 0
        /\ queries = <<>>
        /\ query_cache = EmptyCache
        /\ SearchIdle

\* one call; the graph may be labelled again any number of times
AddCanonicalLabels ==
    /\ pc \in {"call", "labelled"}
    /\ LET r == add_canonical_labels_to_entities(heap, g, kb)
       IN  /\ heap' = r.heap
           /\ ret' = r.ref
    /\ pc' = "labelled"
    /\ UNCHANGED <<g, grounding, queries, kb, query_cache>>
    /\ UNCHANGED searchVars

LabelNext == AddCanonicalLabels

SpecLabel == LabelInit /\ [][LabelNext]_vars

---------------------------------------------------------------------------
(* Properties of add_canonical_labels_to_entities *)

\* C7: labelling a labelled graph again changes nothing, and an edge that
\* has canonical_right keeps that value over every call, whatever the label
\* table holds.
C7_LabelIdempotent ==
    [][(pc' = "labelled") =>
        /\ pc = "labelled" => heap' = heap
        /\ Len(heap') = Len(heap)
        /\ ret' = g
        /\ \A a \in 1..Len(heap) :
              Has(heap[a], "canonical_right") =>
                  /\ Has(heap'[a], "canonical_right")
                  /\ heap'[a]["canonical_right"] = heap[a]["canonical_right"]
       ]_vars

C7_Witness ==
    /\ pc = "labelled"
    /\ kb["Q76"] = Some("Barack Obama")
    /\ Len(EdgeSetOf(heap, g)) = 2
    /\ heap[EdgeSetOf(heap, g)[1]] = [rightkbID |-> "Q76", canonical_right |-> "Obama"]
    /\ heap[EdgeSetOf(heap, g)[2]] = [rightkbID |-> "Q76", canonical_right |-> "Barack Obama"]

---------------------------------------------------------------------------
(* Specification of one call of approximate_groundings *)

ApproxEdgeInputs ==
    { [right |-> "book", rightkbID |-> "Q571"],
      [kbID |-> "P179v"],
      [type |-> "reverse", kbID |-> "P5v"],
      [type |-> "direct", kbID |-> "P179v", hopUp |-> "P674v", rightkbID |-> "Q3899725"] }

\* answers of the backend to a single-edge query
EdgeAnswerInputs ==
    { <<>>,
      << [r0d |-> "P31v"] >>,
      << [r0r |-> "P5v"] >>,
      << [r0d |-> "P31v"], [r0d |-> "P31v", e20 |-> "Q18"] >>,
      << [r0v |-> "P17"], [e20 |-> "Q18"], [r0r |-> "P17v", hop0v |-> "P131v"] >>,
      << [r1d |-> "P31v"], [r0d |-> "P179v"], [r0r |-> "P31v"] >> }

ApproxInit ==
    \E edges \in SeqsUpTo(ApproxEdgeInputs, MaxEdges), answers \in [1..MaxEdges -> EdgeAnswerInputs] :
        /\ heap = GraphHeap(edges, [entities |-> <<>>])
        /\ g = Len(edges) + 1
        /\ kb = answers
        /\ grounding = EmptyDict
        /\ pc = "call"
        /\ ret = 0
        /\ queries = <<>>
        /\ query_cache = EmptyCache
        /\ SearchIdle

ApproximateGroundings ==
    /\ pc = "call"
    /\ LET r == approximate_groundings(heap, g, queries, kb)
       IN  /\ heap' = r.heap
           /\ queries' = r.log
           /\ query_cache' = CacheAll(query_cache,
                                      SubSeq(r.log, Len(queries) + 1, Len(r.log)))
           /\ ret' = r.refs
    /\ pc' = "done"
    /\ UNCHANGED <<g, grounding, kb>>
    /\ UNCHANGED searchVars

ApproxNext == ApproximateGroundings

SpecApprox == ApproxInit /\ [][ApproxNext]_vars

---------------------------------------------------------------------------
(* Properties of approximate_groundings *)

\* the relation a single-edge binding p gives the edge e: the one of its
\* relation key for index 0, else the one the edge has, else none
BoundRelation(e, p) ==
    IF Has(p, "r0d") THEN Some(p["r0d"])
    ELSE IF Has(p, "r0r") THEN Some(p["r0r"])
    ELSE IF Has(p, "r0v") THEN Some(p["r0v"])
    ELSE GetOrNone(e, "kbID")

\* the number of bindings of answer that give e a whitelisted relation
ValidBindings(e, answer) ==
    Cardinality({ j \in 1..Len(answer) :
        LET r == BoundRelation(e, answer[j])
        IN  r # None /\ StripLast(r[1]) \in property_whitelist })

\* the number of the query made for position k of g's edgeSet
QueryIndex(k) == Cardinality({ j \in UngroundedPositions : j <= k })

RECURSIVE ProductOfCounts(_)
ProductOfCounts(k) ==
    IF k = 0 THEN 1
    ELSE ProductOfCounts(k - 1) *
         (IF k \in UngroundedPositions
          THEN ValidBindings(heap[EdgeSetOf(heap, g)[k]], kb[QueryIndex(k)])
          ELSE 1)

\* C8: the number of graphs returned is the product over the edges of 1 for
\* a grounded edge and of the number of whitelist-passing bindings for an
\* ungrounded one; grounded edges are carried over unchanged.
C8_ApproxCount ==
    pc = "done" =>
        /\ Len(ret) = ProductOfCounts(Len(EdgeSetOf(heap, g)))
        /\ \A j \in 1..Len(ret) :
              /\ Len(EdgeSetOf(heap, ret[j])) = Len(EdgeSetOf(heap, g))
              /\ \A k \in 1..Len(EdgeSetOf(heap, g)) :
                    k \notin UngroundedPositions =>
                        heap[EdgeSetOf(heap, ret[j])[k]] = heap[EdgeSetOf(heap, g)[k]]

C8_Witness ==
    /\ pc = "done"
    /\ Len(EdgeSetOf(heap, g)) = 2
    /\ UngroundedPositions = {2}
    /\ Len(kb[1]) = 3
    /\ Len(ret) = 2

---------------------------------------------------------------------------
(* Specification of generate_with_gold *)

GoldInit ==
    /\ pool = << << [f1 |-> 0], 0 >> >>
    /\ positive_graphs = <<>>
    /\ negative_graphs = <<>>
    /\ popped = <<>>
    /\ suggested_graphs = <<>>
    /\ chosen_graphs = <<>>
    /\ input_graphs = <<>>
    /\ not_chosen_graphs = <<>>
    /\ generated_graphs = <<>>
    /\ grounded_graphs = <<>>
    /\ pc = "loop"
    /\ ret = <<>>
    /\ CallIdle

\* lines 37-42 and 66-68: the popped item scores at least 0.7 and is accepted
PopAccept ==
    /\ pc = "loop"
    /\ LoopContinues
    /\ ~Restricts(PopFirst(pool).item)
    /\ popped' = PopFirst(pool).item
    /\ pool' = PopFirst(pool).rest
    /\ positive_graphs' = AcceptPositive(positive_graphs, PopFirst(pool).item)
    /\ UNCHANGED <<pc, ret, negative_graphs, suggested_graphs, chosen_graphs,
                   input_graphs, not_chosen_graphs>>
    /\ UNCHANGED callVars
    /\ UNCHANGED noGoldVars

\* lines 37-48: the popped item scores below 0.7; stages.restrict returns n
\* candidates, which are labelled
PopRestrict ==
    /\ pc = "loop"
    /\ LoopContinues
    /\ Restricts(PopFirst(pool).item)
    /\ popped' = PopFirst(pool).item
    /\ pool' = PopFirst(pool).rest
    /\ \E n \in 0..MaxRestrict : suggested_graphs' = [i \in 1..n |-> i]
    /\ chosen_graphs' = <<>>
    /\ pc' = "suggest"
    /\ UNCHANGED <<ret, positive_graphs, negative_graphs, input_graphs, not_chosen_graphs>>
    /\ UNCHANGED callVars
    /\ UNCHANGED noGoldVars

\* lines 49-54: the next candidate is popped and grounded by
\* ground_with_gold([s_g], gold_answers, min_fscore=master_g_fscore); the
\* groundings of the candidate are drawn from the given lists, while the
\* negatives of the run stay within most
GroundCandidateOn(groundings, most) ==
    /\ pc = "suggest"
    /\ TriesNext
    /\ \E grounded \in groundings :
        /\ NegativesSoFar + Negatives(grounded) <= most
        /\ grounded_graphs' = grounded
        /\ LET r == ground_with_gold(<< grounded >>, F1Of(popped))
           IN  /\ chosen_graphs' = r.chosen
               /\ negative_graphs' = negative_graphs \o r.not_chosen
               /\ pc' = IF r.chosen = <<>> THEN "expand" ELSE "suggest"
    /\ suggested_graphs' = Tail(suggested_graphs)
    /\ UNCHANGED <<ret, pool, positive_graphs, popped, input_graphs, not_chosen_graphs,
                   generated_graphs>>
    /\ UNCHANGED callVars

GroundCandidate == GroundCandidateOn(GroundedGraphs, MaxNegatives)

\* lines 55-58 and 103-105: no grounding of the candidate qualified;
\* stages.expand returns m graphs and ground_with_gold is entered with them
ExpandCandidate ==
    /\ pc = "expand"
    /\ \E m \in 0..MaxExpand : input_graphs' = [i \in 1..m |-> i]
    /\ not_chosen_graphs' = <<>>
    /\ pc' = "ground_expanded"
    /\ UNCHANGED <<ret, pool, positive_graphs, negative_graphs, popped, suggested_graphs,
                   chosen_graphs>>
    /\ UNCHANGED callVars
    /\ grounded_graphs' = <<>>
    /\ UNCHANGED generated_graphs

\* lines 106-110: one turn of the while loop of ground_with_gold on the
\* expanded graphs (chosen_graphs holds all_chosen_graphs of the call)
GroundExpandedOn(groundings, most) ==
    /\ pc = "ground_expanded"
    /\ input_graphs # <<>> /\ Len(chosen_graphs) = 0
    /\ \E grounded \in groundings :
        /\ NegativesSoFar + Negatives(grounded) <= most
        /\ grounded_graphs' = grounded
        /\ LET r == ground_one_with_gold(grounded, F1Of(popped))
           IN  /\ chosen_graphs' = chosen_graphs \o r.chosen
               /\ not_chosen_graphs' = not_chosen_graphs \o r.not_chosen
    /\ input_graphs' = Tail(input_graphs)
    /\ UNCHANGED <<pc, ret, pool, positive_graphs, negative_graphs, popped,
                   suggested_graphs, generated_graphs>>
    /\ UNCHANGED callVars

GroundExpanded == GroundExpandedOn(GroundedGraphs, MaxNegatives)

\* lines 111-115 and 58-59: ground_with_gold returns the top chosen graphs
\* and the negatives are added
ReturnExpanded ==
    /\ pc = "ground_expanded"
    /\ ~(input_graphs # <<>> /\ Len(chosen_graphs) = 0)
    /\ chosen_graphs' = TopChosen(chosen_graphs)
    /\ negative_graphs' = negative_graphs \o not_chosen_graphs
    /\ not_chosen_graphs' = <<>>
    /\ input_graphs' = <<>>
    /\ pc' = "suggest"
    /\ UNCHANGED <<ret, pool, positive_graphs, popped, suggested_graphs>>
    /\ UNCHANGED callVars
    /\ grounded_graphs' = <<>>
    /\ UNCHANGED generated_graphs

\* lines 60-62: the qualifying groundings go to the tail of the pool
ExtendPool ==
    /\ pc = "suggest"
    /\ ~TriesNext
    /\ Len(chosen_graphs) > 0
    /\ pool' = ExtendedPool(pool, chosen_graphs)
    /\ pc' = "loop"
    /\ UNCHANGED <<ret, positive_graphs, negative_graphs, popped, suggested_graphs,
                   chosen_graphs, input_graphs, not_chosen_graphs>>
    /\ UNCHANGED callVars
    /\ grounded_graphs' = <<>>
    /\ UNCHANGED generated_graphs

\* lines 63-65: nothing qualified, the popped item is accepted
AcceptPopped ==
    /\ pc = "suggest"
    /\ ~TriesNext
    /\ ~(Len(chosen_graphs) > 0)
    /\ positive_graphs' = AcceptPositive(positive_graphs, popped)
    /\ pc' = "loop"
    /\ UNCHANGED <<ret, pool, negative_graphs, popped, suggested_graphs, chosen_graphs,
                   input_graphs, not_chosen_graphs>>
    /\ UNCHANGED callVars
    /\ grounded_graphs' = <<>>
    /\ UNCHANGED generated_graphs

\* lines 37 and 69-71: the loop test fails and the function returns
GoldReturn ==
    /\ pc = "loop"
    /\ ~LoopContinues
    /\ ret' = Returned(positive_graphs, negative_graphs)
    /\ pc' = "done"
    /\ UNCHANGED searchVars
    /\ UNCHANGED callVars

GoldNext ==
    \/ PopAccept
    \/ PopRestrict
    \/ GroundCandidate
    \/ ExpandCandidate
    \/ GroundExpanded
    \/ ReturnExpanded
    \/ ExtendPool
    \/ AcceptPopped
    \/ GoldReturn

SpecGold == GoldInit /\ [][GoldNext]_vars

\* the function is one sequential computation: it goes on while a step is left
SpecGoldFair == SpecGold /\ WF_vars(GoldNext)

---------------------------------------------------------------------------
(* Properties of generate_with_gold *)

RECURSIVE MaxF1(_)
MaxF1(items) ==
    IF items = <<>> THEN 0
    ELSE LET m == MaxF1(Tail(items))
         IN  IF F1Of(Head(items)) > m THEN F1Of(Head(items)) ELSE m

\* the best F1 among the accepted positive results
BestPositiveF1 == MaxF1(positive_graphs)

\* C1 (amended): an iteration starts only while the pool is non-empty and
\* the best positive F1 is below 0.9, the function returns only when the pool
\* is empty or the best positive F1 is 0.9 or more, and at every loop test
\* the last appended positive is below 0.9 exactly when the best one is.
C1_LoopCondition ==
    [][/\ (pc = "loop" /\ pc' # "done") =>
              /\ pool # <<>> /\ BestPositiveF1 < StopF1
              /\ pool' = Tail(pool) /\ popped' = Head(pool)
       /\ (pc = "loop" /\ pc' = "done") => (pool = <<>> \/ BestPositiveF1 >= StopF1)
       /\ (pc = "loop") =>
              ((LastPositiveF1(positive_graphs) < StopF1) <=> (BestPositiveF1 < StopF1))
      ]_vars

\* the function returned with graphs still in the pool, because a positive
\* result scores 0.9 or more; an earlier positive result scores less
C1_Witness ==
    /\ pc = "done"
    /\ pool # <<>>
    /\ Len(positive_graphs) = 2
    /\ F1Of(positive_graphs[1]) < StopF1
    /\ BestPositiveF1 >= StopF1

\* C1 as stated: an iteration runs only with the best positive F1 below 0.9,
\* the function returns only with the pool empty or the best positive F1 at
\* 0.9 or more, and at every loop test the F1 of the last appended positive
\* is the best one.
C1_LastIsBest ==
    /\ pc \in {"suggest", "expand", "ground_expanded"} => BestPositiveF1 < StopF1
    /\ pc = "done" => (pool = <<>> \/ BestPositiveF1 >= StopF1)
    /\ pc = "loop" => LastPositiveF1(positive_graphs) = BestPositiveF1

\* C2: every graph pushed onto the pool scores strictly more than the
\* popped graph it was derived from, and the function returns.
C2_Terminates ==
    /\ [][(pc = "suggest" /\ pool' # pool) =>
              /\ Len(pool') > Len(pool)
              /\ SubSeq(pool', 1, Len(pool)) = pool
              /\ \A i \in (Len(pool) + 1)..Len(pool') : F1Of(pool'[i]) > F1Of(popped)
         ]_vars
    /\ <>(pc = "done")

\* graphs were pushed twice (0.4 from the input graph, 0.95 from the 0.4
\* one) and the function returned
C2_Witness ==
    /\ pc = "done"
    /\ F1Of(popped) = 950
    /\ \E i \in 1..Len(positive_graphs) : F1Of(positive_graphs[i]) = 400
    /\ ret = positive_graphs \o negative_graphs

\* C3: positive results are only appended, so the best F1 among them never
\* decreases.
C3_BestNeverDecreases ==
    [][/\ Len(positive_graphs') >= Len(positive_graphs)
       /\ SubSeq(positive_graphs', 1, Len(positive_graphs)) = positive_graphs
       /\ MaxF1(positive_graphs') >= MaxF1(positive_graphs)
      ]_vars

\* a result scoring 0.4 was appended after one scoring 0.7
C3_Witness ==
    /\ pc = "loop"
    /\ Len(positive_graphs) = 2
    /\ F1Of(positive_graphs[1]) = 700
    /\ F1Of(positive_graphs[2]) = 400

---------------------------------------------------------------------------
(* generate_without_gold, find_groundings_with_gold and ground_without_gold *)

\* The backend (wdaccess) answers by a table kb:
\*   kb.joint[type]  what the joint query binds for an edge of that type that
\*                   has no relation: the query fails ("fail"), the query has
\*                   no solution ("empty"), the solution leaves the relation
\*                   of the edge unbound ("unbound"), or the relation bound;
\*   kb.edge         the relations the query of a single edge returns;
\*   kb.edgeFails    whether the query of a single edge fails (it then raises:
\*                   only pass_exception turns a failure into a marker);
\*   kb.missing      the entity no graph of the knowledge base mentions.
JointKinds == {"fail", "empty", "unbound", "P31v", "P999v"}

EdgeRelationInputs == { <<>>, <<"P31v">>, <<"P999v", "P179v">> }

Worlds ==
    { w \in [joint : [{"direct", "reverse"} -> JointKinds],
             edge  : EdgeRelationInputs,
             edgeFails : BOOLEAN,
             missing : {"", "Q2"}] :
          w.edgeFails => w.edge = <<>> }

\* the variable of the relation of edge i (counted from 0) in a query
RelationKey(e, i) ==
    "r" \o Str(i) \o (IF Get(e, "type", "direct") = "reverse" THEN "r" ELSE "d")

\* wdaccess.query_graph_groundings(t, use_cache=False, pass_exception=True)
JointAnswer(h, t, world) ==
    LET refs  == EdgeSetOf(h, t)
        open  == { i \in 1..Len(refs) : ~Has(h[refs[i]], "kbID") }
        kinds == { world.joint[h[refs[i]]["type"]] : i \in open }
        bound == { i \in open : world.joint[h[refs[i]]["type"]] # "unbound" }
        keys  == { RelationKey(h[refs[i]], i - 1) : i \in bound }
    IN  IF "fail" \in kinds THEN QueryFailed
        ELSE IF "empty" \in kinds THEN <<>>
        ELSE << [k \in keys |->
                   LET i == CHOOSE j \in bound : RelationKey(h[refs[j]], j - 1) = k
                   IN  world.joint[h[refs[i]]["type"]]] >>

\* wdaccess.query_graph_groundings({'edgeSet': [edge]}, use_cache=True)
RECURSIVE EdgeBindings(_, _)
EdgeBindings(key, relations) ==
    IF relations = <<>> THEN <<>>
    ELSE << (key :> Head(relations)) >> \o EdgeBindings(key, Tail(relations))

\* query_graph_groundings called without pass_exception (line 153): a
\* failure of the backend is raised to the caller
EdgeQueryRaises(world) == world.edgeFails

\* the answer of the query of a single edge that does not fail
EdgeAnswer(e, world) == EdgeBindings(RelationKey(e, 0), world.edge)

\* the answers approximate_groundings(t) gets, as the list it indexes by the
\* number of the query
ApproxAnswers(h, t, log, world) ==
    LET open == UngroundedRefs(h, t)
    IN  [k \in 1..(Len(log) + Len(open)) |->
            IF k <= Len(log) THEN <<>> ELSE EdgeAnswer(h[open[k - Len(log)]], world)]

\* verify_grounding: wdaccess.query_wikidata(wdaccess.graph_to_ask(g))
verify_grounding(h, a, world) ==
    ~ \E k \in 1..Len(EdgeSetOf(h, a)) :
          Get(h[EdgeSetOf(h, a)[k]], "rightkbID", "") = world.missing
              /\ world.missing # ""

\* the generated graphs without the filter of line 276
Verified_all(h, graphs, world) == graphs

\* line 276: [g for g in generated_graphs if verify_grounding(g)]
Verified(h, graphs, world) ==
    SelectSeq(graphs, LAMBDA a : verify_grounding(h, a, world))

\* [apply_grounding(t, p) for p in query_results]
RECURSIVE ApplyAll(_, _, _, _)
ApplyAll(h, t, query_results, done) ==
    IF query_results = <<>> THEN [heap |-> h, refs |-> done]
    ELSE LET r == apply_grounding(h, t, Head(query_results))
         IN  ApplyAll(r.heap, t, Tail(query_results), Append(done, r.ref))

\* t = graph.copy_graph(g) with the types of one combination set
TypedCopy(h, a, types) ==
    LET t == copy_graph(h, a)
    IN  [heap |-> SetTypes(t.heap, UngroundedRefs(t.heap, t.ref), types),
         ref  |-> t.ref]

\* lines 213-215: query_results is None
ApproximatedGroundings(st, t, log, world) ==
    LET ap == approximate_groundings(t.heap, t.ref, log,
                                     ApproxAnswers(t.heap, t.ref, log, world))
    IN  [heap |-> ap.heap,
         log  |-> ap.log,
         refs |-> st.refs \o
                  SelectSeq(ap.refs, LAMBDA r : verify_grounding(ap.heap, r, world))]

\* line 217: query_results is a list of groundings
AppliedGroundings(st, t, log, query_results) ==
    LET ag == ApplyAll(t.heap, t.ref, query_results, <<>>)
    IN  [heap |-> ag.heap, log |-> log, refs |-> st.refs \o ag.refs]

\* lines 211-217: the body of the loop for the typed copy t
GroundCombination(st, t, world) ==
    LET query_results == JointAnswer(t.heap, t.ref, world)
        log2          == Append(st.log, EdgesOf(t.heap, t.ref))
    IN  IF query_results = QueryFailed
        THEN ApproximatedGroundings(st, t, log2, world)
        ELSE AppliedGroundings(st, t, log2, query_results)

\* the for loop over edge_type_combinations
RECURSIVE GroundCombinations(_, _, _, _)
GroundCombinations(st, a, combos, world) ==
    IF combos = <<>> THEN st
    ELSE GroundCombinations(
             GroundCombination(st, TypedCopy(st.heap, a, Head(combos)), world),
             a, Tail(combos), world)

find_groundings_with_gold(h, a, log, world) ==
    GroundCombinations([heap |-> h, log |-> log, refs |-> <<>>], a,
                       TypeCombinations(Len(UngroundedRefs(h, a))), world)

\* find_groundings_with_gold up to the first query of a single edge (line
\* 153), which raises when the backend fails: raised tells whether such a
\* query is made, heap and log are those at the raise.  The query is the
\* one of the first ungrounded edge of the first typed copy whose joint
\* query failed.
RECURSIVE EdgeQueryRaised(_, _, _, _)
RaisedIn(st, t, a, combos, world) ==
    IF /\ EdgeQueryRaises(world)
       /\ JointAnswer(t.heap, t.ref, world) = QueryFailed
       /\ UngroundedRefs(t.heap, t.ref) # <<>>
    THEN [raised |-> TRUE,
          heap   |-> Alloc(t.heap, [edgeSet |-> << Head(UngroundedRefs(t.heap, t.ref)) >>]).heap,
          log    |-> st.log \o << EdgesOf(t.heap, t.ref),
                                  << t.heap[Head(UngroundedRefs(t.heap, t.ref))] >> >>]
    ELSE EdgeQueryRaised(GroundCombination(st, t, world), a, combos, world)

EdgeQueryRaised(st, a, combos, world) ==
    IF combos = <<>> THEN [raised |-> FALSE, heap |-> st.heap, log |-> st.log]
    ELSE RaisedIn(st, TypedCopy(st.heap, a, Head(combos)), a, Tail(combos), world)

\* the queries of find_groundings_with_gold made with use_cache=True, in
\* order: those of approximate_groundings (line 153), which follow a failed
\* joint query (line 212, use_cache=False)
RECURSIVE CachedQueries(_, _, _, _)
CachedAfter(st, t, next, a, combos, world) ==
    (IF JointAnswer(t.heap, t.ref, world) = QueryFailed
     THEN SubSeq(next.log, Len(st.log) + 2, Len(next.log)) ELSE <<>>)
    \o CachedQueries(next, a, combos, world)

CachedWith(st, t, a, combos, world) ==
    CachedAfter(st, t, GroundCombination(st, t, world), a, combos, world)

CachedQueries(st, a, combos, world) ==
    IF combos = <<>> THEN <<>>
    ELSE CachedWith(st, TypedCopy(st.heap, a, Head(combos)), a, Tail(combos), world)

\* all(e.get("kbID")[:-1] in wdaccess.property_whitelist for e in edges):
\* "True", "False", or "TypeError" when e.get("kbID") is None at the first
\* edge that is not a whitelisted one
RECURSIVE AllInWhitelist(_, _)
AllInWhitelist(h, refs) ==
    IF refs = <<>> THEN "True"
    ELSE LET kbID == GetOrNone(h[Head(refs)], "kbID")
         IN  IF kbID = None THEN "TypeError"
             ELSE IF StripLast(kbID[1]) \in property_whitelist
             THEN AllInWhitelist(h, Tail(refs))
             ELSE "False"

\* the list comprehension of line 301 over the grounded graphs
RECURSIVE WhitelistFilter(_, _, _)
WhitelistFilter(h, graphs, kept) ==
    IF graphs = <<>> THEN [raised |-> FALSE, refs |-> kept]
    ELSE LET verdict == AllInWhitelist(h, EdgeSetOf(h, Head(graphs)))
         IN  IF verdict = "TypeError" THEN [raised |-> TRUE, refs |-> kept]
             ELSE WhitelistFilter(h, Tail(graphs),
                                  IF verdict = "True"
                                  THEN Append(kept, Head(graphs)) ELSE kept)

\* The stages (construction/stages.py): an action returns copies of the
\* graph with one more edge.  The knowledge-base-dependent restrict and
\* expand actions add an edge to an entity, the other actions add an edge
\* that has its relation already.
LinkingEdges ==
    { [rightkbID |-> "Q1"],
      [rightkbID |-> "Q2"],
      [type |-> "direct", kbID |-> "P17v", rightkbID |-> "Q1"] }

NonLinkingEdges == { [type |-> "time", kbID |-> "P585v"] }

\* the edge an expand action adds to a graph a restrict action suggested
ExpandEdges == { [rightkbID |-> "Q2"] }

\* the copy of the graph at address a with the edge e added
WithEdge(h, a, e) ==
    LET c  == copy_graph(h, a)
        ne == Alloc(c.heap, e)
    IN  [heap |-> Store(ne.heap, c.ref,
                        Put(ne.heap[c.ref], "edgeSet",
                            Append(EdgeSetOf(ne.heap, c.ref), ne.ref))),
         ref  |-> c.ref]

\* one graph per edge of the list
RECURSIVE WithEdges(_, _, _, _)
WithEdges(h, a, edges, done) ==
    IF edges = <<>> THEN [heap |-> h, refs |-> done]
    ELSE LET r == WithEdge(h, a, Head(edges))
         IN  WithEdges(r.heap, a, Tail(edges), Append(done, r.ref))

\* [el for s_g in graphs for f in actions for el in f(s_g)], for one action
\* that returns one graph (lines 257 and 268)
RECURSIVE ExtendAll(_, _, _, _)
ExtendAll(h, graphs, e, done) ==
    IF graphs = <<>> THEN [heap |-> h, refs |-> done]
    ELSE LET r == WithEdge(h, Head(graphs), e)
         IN  ExtendAll(r.heap, Tail(graphs), e, Append(done, r.ref))

\* [add_canonical_labels_to_entities(g) for g in chosen_graphs]
RECURSIVE LabelAll(_, _, _)
LabelAll(h, graphs, labels) ==
    IF graphs = <<>> THEN h
    ELSE LabelAll(add_canonical_labels_to_entities(h, Head(graphs), labels).heap,
                  Tail(graphs), labels)

\* wdaccess.label_entity on the entities of the stages
StageLabels == [id \in {"Q1", "Q2"} |-> IF id = "Q1" THEN Some("one") ELSE None]

\* for g in generated_graphs: if 'entities' in g: del g['entities']
RECURSIVE DelEntities(_, _)
DelEntities(h, graphs) ==
    IF graphs = <<>> THEN h
    ELSE DelEntities(Store(h, Head(graphs), Del(h[Head(graphs)], "entities")),
                     Tail(graphs))

---------------------------------------------------------------------------
(* Specification of generate_without_gold *)

NoGoldInitIn(worlds) ==
    \E world \in worlds :
        /\ heap = GraphHeap(<<>>, [entities |-> << "Q1", "Q2" >>])
        /\ g = 1
        /\ kb = world
        /\ grounding = EmptyDict
        /\ queries = <<>>
        /\ query_cache = EmptyCache
        /\ pool = << 1 >>
        /\ generated_graphs = <<>>
        /\ grounded_graphs = <<>>
        /\ input_graphs = <<>>
        /\ popped = <<>>
        /\ positive_graphs = <<>>
        /\ negative_graphs = <<>>
        /\ suggested_graphs = <<>>
        /\ chosen_graphs = <<>>
        /\ not_chosen_graphs = <<>>
        /\ pc = "loop"
        /\ ret = <<>>

NoGoldInit == NoGoldInitIn(Worlds)

\* lines 247-273: one iteration of the while loop.  The stages suggest
\* graphs while the popped graph has fewer than MaxEdges edges and fewer
\* than most graphs are generated.
NoGoldIterateUpTo(most) ==
    /\ pc = "loop"
    /\ pool # <<>>
    /\ LET popped_g == PopFirst(pool).item
           room     == IF Len(EdgeSetOf(heap, popped_g)) < MaxEdges
                       THEN most - Len(generated_graphs) ELSE 0
       IN  \E edges \in SeqsUpTo(LinkingEdges, MaxRestrict), expanded \in BOOLEAN,
              x \in ExpandEdges, extended \in BOOLEAN, e \in NonLinkingEdges :
               /\ Len(edges) * (IF expanded THEN 2 ELSE 1) * (IF extended THEN 2 ELSE 1)
                      <= room
               /\ expanded => edges # <<>> /\ Len(EdgeSetOf(heap, popped_g)) + 1 < MaxEdges
               /\ extended => edges # <<>>
               /\ LET restricted == WithEdges(heap, popped_g, edges, <<>>)
                      \* line 257: the expand actions on the graphs of line 256
                      expansion  == IF expanded
                                    THEN ExtendAll(restricted.heap, restricted.refs, x, <<>>)
                                    ELSE [heap |-> restricted.heap, refs |-> <<>>]
                      suggested  == restricted.refs \o expansion.refs
                      labelled   == LabelAll(expansion.heap, suggested, StageLabels)
                      ext        == IF extended
                                    THEN ExtendAll(labelled, suggested, e, <<>>)
                                    ELSE [heap |-> labelled, refs |-> <<>>]
                  IN  /\ heap' = ext.heap
                      /\ pool' = PopFirst(pool).rest \o suggested
                      /\ generated_graphs' = generated_graphs \o suggested \o ext.refs
               /\ popped' = popped_g
    /\ UNCHANGED <<pc, g, grounding, ret, queries, kb, query_cache, positive_graphs, negative_graphs,
                   suggested_graphs, chosen_graphs, input_graphs, not_chosen_graphs,
                   grounded_graphs>>

NoGoldIterate == NoGoldIterateUpTo(MaxGenerated)

\* lines 274-283: the pool is empty; the generated graphs are verified, their
\* 'entities' are deleted and they are handed to ground_without_gold
NoGoldVerify ==
    /\ pc = "loop"
    /\ pool = <<>>
    /\ LET verified == Verified(heap, generated_graphs, kb)
       IN  /\ generated_graphs' = verified
           /\ input_graphs' = verified
           /\ heap' = DelEntities(heap, verified)
    /\ pc' = "ground"
    /\ UNCHANGED <<g, grounding, ret, queries, kb, query_cache, pool, positive_graphs, negative_graphs,
                   popped, suggested_graphs, chosen_graphs, not_chosen_graphs,
                   grounded_graphs>>

\* line 297: find_groundings_with_gold(s_g) for the next graph s_g; the
\* exception of a failed single-edge query (line 153) is caught nowhere and
\* ends the run
NoGoldGround ==
    /\ pc = "ground"
    /\ input_graphs # <<>>
    /\ LET start  == [heap |-> heap, log |-> queries, refs |-> <<>>]
           combos == TypeCombinations(Len(UngroundedRefs(heap, Head(input_graphs))))
           x      == EdgeQueryRaised(start, Head(input_graphs), combos, kb)
       IN  IF x.raised
           THEN /\ heap' = x.heap
                /\ queries' = x.log
                /\ pc' = "failed"
                /\ UNCHANGED <<grounded_graphs, query_cache, input_graphs>>
           ELSE /\ LET r == find_groundings_with_gold(heap, Head(input_graphs), queries, kb)
                   IN  /\ heap' = r.heap
                       /\ queries' = r.log
                       /\ grounded_graphs' = grounded_graphs \o r.refs
                /\ query_cache' =
                       CacheAll(query_cache,
                                CachedQueries(start, Head(input_graphs), combos, kb))
                /\ input_graphs' = Tail(input_graphs)
                /\ pc' = pc
    /\ UNCHANGED <<g, grounding, ret, kb, pool, positive_graphs, negative_graphs,
                   popped, suggested_graphs, chosen_graphs, not_chosen_graphs,
                   generated_graphs>>

\* lines 301-305 and 284-287: the whitelist filter, the clearing of the
\* backend's cache (line 304, not reached when the filter raises), and the
\* return
NoGoldReturn ==
    /\ pc = "ground"
    /\ input_graphs = <<>>
    /\ LET r == WhitelistFilter(heap, grounded_graphs, <<>>)
       IN  IF r.raised
           THEN /\ pc' = "raised"
                /\ UNCHANGED <<ret, grounded_graphs, query_cache>>
           ELSE /\ pc' = "done"
                /\ query_cache' = clear_cache(query_cache)
                /\ grounded_graphs' = r.refs
                /\ ret' = r.refs
    /\ UNCHANGED <<heap, g, grounding, queries, kb, pool, positive_graphs,
                   negative_graphs, popped, suggested_graphs, chosen_graphs,
                   input_graphs, not_chosen_graphs, generated_graphs>>

NoGoldNext ==
    \/ NoGoldIterate
    \/ NoGoldVerify
    \/ NoGoldGround
    \/ NoGoldReturn

SpecNoGold == NoGoldInit /\ [][NoGoldNext]_vars

---------------------------------------------------------------------------
(* Specification of the two search controllers on wider inputs *)

\* a knowledge base that answers every query
AnsweringWorlds ==
    { w \in Worlds : /\ ~w.edgeFails
                     /\ w.missing = ""
                     /\ w.edge = <<"P31v">>
                     /\ \A t \in {"direct", "reverse"} : w.joint[t] = "P31v" }

\* generate_with_gold is called (g = 0 throughout its run), or
\* generate_without_gold is (g = 1 throughout)
SearchInit == GoldInit \/ NoGoldInitIn(AnsweringWorlds)

\* a step of generate_with_gold, and one of generate_without_gold
InGold(step) == g = 0 /\ step
InNoGold(step) == g # 0 /\ step

SearchNext ==
    \/ InGold(PopAccept)
    \/ InGold(PopRestrict)
    \/ InGold(GroundCandidateOn(WideGroundings, MaxWideNegatives))
    \/ InGold(ExpandCandidate)
    \/ InGold(GroundExpandedOn(WideGroundings, MaxWideNegatives))
    \/ InGold(ReturnExpanded)
    \/ InGold(ExtendPool)
    \/ InGold(AcceptPopped)
    \/ InGold(GoldReturn)
    \/ InNoGold(NoGoldIterateUpTo(MaxPooled))
    \/ InNoGold(NoGoldVerify)
    \/ InNoGold(NoGoldGround)
    \/ InNoGold(NoGoldReturn)

SpecSearch == SearchInit /\ [][SearchNext]_vars

---------------------------------------------------------------------------
(* Properties of generate_without_gold *)

\* C4: every graph generate_without_gold returns has on every edge a
\* relation whose value without its last character is in the whitelist, and
\* a candidate with an edge that has no relation is filtered out without
\* an exception.
C4_WhitelistedNeverRaises ==
    /\ pc # "raised"
    /\ pc = "done" =>
           \A j \in 1..Len(ret) : \A k \in 1..Len(EdgeSetOf(heap, ret[j])) :
               EdgeInWhitelist(heap[EdgeSetOf(heap, ret[j])[k]])

---------------------------------------------------------------------------
(* Backend failures on the path of generate_without_gold *)

\* the graph the step NoGoldGround grounds
Candidate == Head(input_graphs)

\* positions of the edges of the candidate that are to be grounded
OpenEdges == { k \in 1..Len(EdgeSetOf(heap, Candidate)) :
                   Ungrounded(heap[EdgeSetOf(heap, Candidate)[k]]) }

\* the assignments of 'direct' and 'reverse' to the open edges, one per
\* joint query
TypeAssignments == [OpenEdges -> {"direct", "reverse"}]

JointFails(types) == \E k \in OpenEdges : kb.joint[types[k]] = "fail"

JointEmpty(types) == \E k \in OpenEdges : kb.joint[types[k]] = "empty"

\* the relations of the single-edge answer that pass the whitelist
EdgeWhitelisted ==
    Cardinality({ j \in 1..Len(kb.edge) : StripLast(kb.edge[j]) \in property_whitelist })

RECURSIVE Power(_, _)
Power(b, n) == IF n = 0 THEN 1 ELSE b * Power(b, n - 1)

\* the groundings one joint query contributes
ExpectedGroundings(types) ==
    IF JointFails(types)
    THEN IF verify_grounding(heap, Candidate, kb)
         THEN Power(EdgeWhitelisted, Cardinality(OpenEdges)) ELSE 0
    ELSE IF JointEmpty(types) THEN 0 ELSE 1

\* the queries one joint query makes: itself and, when it fails, one per
\* open edge
ExpectedQueries(types) ==
    1 + (IF JointFails(types) THEN Cardinality(OpenEdges) ELSE 0)

RECURSIVE SumGroundings(_)
SumGroundings(S) ==
    IF S = {} THEN 0
    ELSE LET x == CHOOSE y \in S : TRUE
         IN  ExpectedGroundings(x) + SumGroundings(S \ {x})

RECURSIVE SumQueries(_)
SumQueries(S) ==
    IF S = {} THEN 0
    ELSE LET x == CHOOSE y \in S : TRUE
         IN  ExpectedQueries(x) + SumQueries(S \ {x})

\* C11: a failed joint query is followed by the single-edge queries of
\* approximate_groundings and contributes their whitelisted, verified
\* product (nothing when the single-edge queries fail too); the step ends
\* normally and the remaining candidates stay to be processed; the run is
\* aborted only in a world whose joint answers leave a relation unbound.
C11_FailureFallsBack ==
    [][/\ (pc = "ground" /\ input_graphs # <<>>) =>
              /\ pc' = "ground"
              /\ input_graphs' = Tail(input_graphs)
              /\ Len(grounded_graphs') =
                     Len(grounded_graphs) + SumGroundings(TypeAssignments)
              /\ SubSeq(grounded_graphs', 1, Len(grounded_graphs)) = grounded_graphs
              /\ Len(queries') = Len(queries) + SumQueries(TypeAssignments)
       /\ (pc' \in {"raised", "failed"}) =>
              \E t \in {"direct", "reverse"} : kb.joint[t] = "unbound"
      ]_vars

\* what holds of the code: the fallback to approximate_groundings after a
\* failed joint query, while the single-edge queries do not fail; when one
\* fails, its exception ends the run at that query, the candidate and those
\* after it are left, and nothing is returned
C11_JointFailureFallsBack ==
    [][/\ (pc = "ground" /\ input_graphs # <<>> /\ pc' = "ground") =>
              /\ input_graphs' = Tail(input_graphs)
              /\ Len(grounded_graphs') =
                     Len(grounded_graphs) + SumGroundings(TypeAssignments)
              /\ SubSeq(grounded_graphs', 1, Len(grounded_graphs)) = grounded_graphs
              /\ Len(queries') = Len(queries) + SumQueries(TypeAssignments)
       /\ (pc = "ground" /\ input_graphs # <<>>) =>
              (pc' = "failed" <=>
                   kb.edgeFails /\ \E types \in TypeAssignments : JointFails(types))
       /\ (pc' = "failed" /\ pc # "failed") =>
              /\ input_graphs' = input_graphs /\ grounded_graphs' = grounded_graphs
              /\ ret' = ret /\ ret = <<>>
              /\ Len(queries') >= Len(queries) + 2
              /\ Len(queries'[Len(queries')]) = 1
       /\ (pc = "failed") => vars' = vars
      ]_vars

\* the joint queries of the first candidate failed, and a second candidate
\* was then grounded through the fallback
C11_Witness ==
    /\ pc = "ground"
    /\ kb.joint["direct"] = "fail"
    /\ kb.joint["reverse"] = "fail"
    /\ Len(generated_graphs) = 2
    /\ input_graphs = <<>>
    /\ Len(queries) >= 4
    /\ kb.edge = <<"P999v", "P179v">> /\ Len(grounded_graphs) >= 2

\* the single-edge query of the fallback failed and the run was aborted
\* with a second candidate left
C11_RunAborted ==
    /\ pc = "failed"
    /\ kb.edgeFails
    /\ Len(input_graphs) = 2
    /\ Len(queries) = 2

---------------------------------------------------------------------------
(* link_entities_in_graph, the first statement of generate_with_gold       *)
(* (line 33).  An entity mention is the tuple (tokens, kind) or, once       *)
(* linked, (tokens, kind, linkings).                                       *)

\* most mentions of a question
MaxMentions == 2

UnlinkedMentions ==
    { << <<"Texas", "Rangers">>, "URL" >>,
      << <<"2009">>, "CD" >> }

LinkedMentions == { << <<"the", "winner">>, "NN", <<"Q1">> >> }

\* what entity_linking.link_entity may return for a mention
LinkingInputs == { <<>>, <<"Q1">>, <<"Q1", "Q2">> }

\* lines 81-87: a mention of two elements gets the linkings as its third
RECURSIVE LinkLoop(_, _, _)
LinkLoop(mentions, linker, entities) ==
    IF mentions = <<>> THEN entities
    ELSE LET entity == Head(mentions)
         IN  LinkLoop(Tail(mentions), linker,
                 Append(entities,
                        IF Len(entity) = 2
                        THEN Append(entity, linker[entity])
                        ELSE entity))

\* the new list is stored in the dictionary the caller passed, which is
\* returned (lines 88-89)
link_entities_in_graph(h, a, linker) ==
    [heap |-> Store(h, a, Put(h[a], "entities",
                              LinkLoop(Get(h[a], "entities", <<>>), linker, <<>>))),
     ref  |-> a]

\* the graph dictionaries a caller may pass to generate_with_gold
LinkGraphInputs ==
    LET mentions == SeqsUpTo(UnlinkedMentions \cup LinkedMentions, MaxMentions)
    IN  { EmptyDict, [tokens |-> <<"who", "plays">>] }
        \cup { [entities |-> m] : m \in mentions }
        \cup { [entities |-> m, tokens |-> <<"who", "plays">>] : m \in mentions }

LinkInit ==
    \E fields \in LinkGraphInputs, linker \in [UnlinkedMentions -> LinkingInputs] :
        /\ heap = GraphHeap(<<>>, fields)
        /\ g = 1
        /\ kb = linker
        /\ grounding = EmptyDict
        /\ queries = <<>>
        /\ query_cache = EmptyCache
        /\ pc = "call"
        /\ ret = 0
        /\ SearchIdle

LinkEntities ==
    /\ pc = "call"
    /\ LET r == link_entities_in_graph(heap, g, kb)
       IN  /\ heap' = r.heap
           /\ ret' = r.ref
    /\ pc' = "done"
    /\ UNCHANGED <<g, grounding, queries, kb, query_cache>>
    /\ UNCHANGED searchVars

LinkNext == LinkEntities

SpecLink == LinkInit /\ [][LinkNext]_vars

---------------------------------------------------------------------------
(* Shared state between a search call and its caller *)

\* C12: generate_with_gold leaves the graph dictionary the caller passed as
\* it was (the same fields with the same values, the same entities), and the
\* graph it works on is not the caller's dictionary but a copy of it.
C12_CallerGraphUnchanged ==
    [][(pc = "call" /\ pc' = "done") =>
          /\ heap'[g] = heap[g]
          /\ ret' # g
      ]_vars

\* what the code does instead: the caller's dictionary is the one returned,
\* it has the field 'entities' afterwards, and its mentions all have three
\* elements
C12_CallerGraphLinked ==
    [][(pc = "call" /\ pc' = "done") =>
          /\ ret' = g
          /\ Len(heap') = Len(heap)
          /\ DOMAIN heap'[g] = (DOMAIN heap[g]) \cup {"entities"}
          /\ \A f \in (DOMAIN heap[g]) \ {"entities"} : heap'[g][f] = heap[g][f]
          /\ LET before == Get(heap[g], "entities", <<>>)
                 after  == heap'[g]["entities"]
             IN  /\ Len(after) = Len(before)
                 /\ \A i \in 1..Len(before) :
                       /\ Len(after[i]) = 3
                       /\ after[i][1] = before[i][1]
                       /\ after[i][2] = before[i][2]
                       /\ Len(before[i]) = 3 => after[i] = before[i]
                       /\ Len(before[i]) = 2 => after[i][3] = kb[before[i]]
      ]_vars

\* a caller's graph without 'entities' has the field after the call, and one
\* with an unlinked mention has the mention linked
C12_Witness ==
    /\ pc = "done"
    /\ ret = g
    /\ Has(heap[g], "entities")
    /\ Len(heap[g]["entities"]) = 2
    /\ heap[g]["entities"][1] = << <<"2009">>, "CD", <<"Q1", "Q2">> >>
    /\ heap[g]["entities"][2] = << <<"the", "winner">>, "NN", <<"Q1">> >>

---------------------------------------------------------------------------
(* datasets/webquestions_io.py: WebQuestions._get_samples for one question. *)
(* A silver graph is the list [graph, (p, r, f1), answers], kept as the     *)
(* tuple <<graph, f1>>, or the one-element list [graph], kept as <<graph>>; *)
(* a graph is compared by its 'edgeSet' alone (line 54).                    *)

f1_samples_threshold == 500

\* max.silver.samples (15) and max.negative.samples (30), scaled down so
\* that every sample and every shuffle of a graph set can be enumerated
max_silver_samples == 2
max_negative_samples == 4

GraphA == [edgeSet |-> <<"a">>]
GraphB == [edgeSet |-> <<"b">>]
GraphC == [edgeSet |-> <<"c">>]
GraphN1 == [edgeSet |-> <<"n1">>]
GraphN2 == [edgeSet |-> <<"n2">>]
GraphN3 == [edgeSet |-> <<"n3">>]

\* self._silver_graphs[index]: what generate_with_gold returned for the
\* question, positives with their scores and then negatives without
SilverInputs ==
    { <<>>,
      << <<GraphA, 400>> >>,
      << <<GraphA, 800>> >>,
      << <<GraphA, 800>>, <<GraphB>> >>,
      << <<GraphA, 400>>, <<GraphB, 1000>> >>,
      << <<GraphA, 600>>, <<GraphB, 600>>, <<GraphC>> >>,
      << <<GraphA, 400>>, <<GraphB, 0>>, <<GraphC, 1000>> >>,
      << <<GraphA, 0>>, <<GraphB>>, <<GraphC, 800>> >>,
      << <<GraphA>>, <<GraphB>>, <<GraphC, 800>>, <<GraphN1>> >> }

\* self._choice_graphs[index]: all graphs derivable from the question
ChoiceInputs ==
    { <<>>,
      << GraphA >>,
      << GraphN1 >>,
      << GraphA, GraphN1 >>,
      << GraphB, GraphN1, GraphN2 >>,
      << GraphN1, GraphN2, GraphN3 >> }

\* lines 41-43: the question has a silver graph above the threshold and has
\* choice graphs
Selected(silver, choice) ==
    /\ \E i \in 1..Len(silver) :
          Len(silver[i]) > 1 /\ silver[i][2] > f1_samples_threshold
    /\ choice # <<>>

\* line 52: graph_list[:max.silver.samples]
SilverKept(silver) ==
    SubSeq(silver, 1, IF Len(silver) < max_silver_samples
                      THEN Len(silver) ELSE max_silver_samples)

\* lines 53-54: the choice graphs whose edgeSet no kept silver graph has
NegativePool(choice, graph_list) ==
    SelectSeq(choice,
              LAMBDA n_g : \A i \in 1..Len(graph_list) :
                              n_g.edgeSet # graph_list[i][1].edgeSet)

\* line 55
NegativePoolSize(graph_list) == max_negative_samples - Len(graph_list)

\* np.random.choice(negative_pool, size, replace=True in every case)
Choices_replacing(negative_pool, size, replace) ==
    [1..size -> 1..Len(negative_pool)]

\* np.random.choice(negative_pool, size, replace): the samples of size
\* positions of the pool, each position at most once unless replace
Choices(negative_pool, size, replace) ==
    { c \in [1..size -> 1..Len(negative_pool)] :
          replace \/ \A i, j \in 1..size : c[i] = c[j] => i = j }

\* lines 56-61: the graph list with the sampled negatives (one-element
\* tuples), or with empty graphs when there is no negative
WithNegatives(graph_list, negative_pool, c) ==
    graph_list \o
    [i \in 1..NegativePoolSize(graph_list) |->
        IF negative_pool # <<>> THEN << negative_pool[c[i]] >>
        ELSE << [edgeSet |-> <<>>] >>]

\* np.random.shuffle: position i of the result holds element perm[i]
Shuffled(graph_list, perm) == [i \in 1..Len(graph_list) |-> graph_list[perm[i]]]

\* line 63: g[1][2] if len(g) > 1 else 0.0
ScoreOf(item) == IF Len(item) > 1 THEN item[2] ELSE 0

\* np.argmax: the first position of the largest score, counted from 0
ArgMax(graph_list) ==
    (CHOOSE i \in 1..Len(graph_list) :
        /\ \A j \in 1..Len(graph_list) : ScoreOf(graph_list[j]) <= ScoreOf(graph_list[i])
        /\ \A j \in 1..(i - 1) : ScoreOf(graph_list[j]) < ScoreOf(graph_list[i])) - 1

\* lines 51-66 for one index, with the sample c and the shuffle perm
IndexedSample(silver, choice, c, perm) ==
    LET kept     == SilverKept(silver)
        shuffled == Shuffled(WithNegatives(kept, NegativePool(choice, kept), c), perm)
    IN  [graph_lists |-> << [i \in 1..Len(shuffled) |-> shuffled[i][1]] >>,
         targets     |-> << ArgMax(shuffled) >>]

SamplesInit ==
    \E silver \in SilverInputs, choice \in ChoiceInputs :
        /\ kb = [silver_graphs |-> silver, choice_graphs |-> choice]
        /\ heap = <<>>
        /\ g = 0
        /\ grounding = <<>>
        /\ queries = <<>>
        /\ query_cache = EmptyCache
        /\ pc = "call"
        /\ ret = <<>>
        /\ SearchIdle

\* _get_samples of a list of one question: nothing for a question that is
\* not selected, else one graph set and its target
GetSamples ==
    /\ pc = "call"
    /\ IF Selected(kb.silver_graphs, kb.choice_graphs)
       THEN LET kept == SilverKept(kb.silver_graphs)
                negative_pool == NegativePool(kb.choice_graphs, kept)
                size == NegativePoolSize(kept)
            IN  \E c \in (IF negative_pool = <<>> THEN { <<>> }
                          ELSE Choices(negative_pool, size, Len(negative_pool) < size)),
                   perm \in Permutations(1..max_negative_samples) :
                    ret' = IndexedSample(kb.silver_graphs, kb.choice_graphs, c, perm)
       ELSE ret' = [graph_lists |-> <<>>, targets |-> <<>>]
    /\ pc' = "done"
    /\ UNCHANGED <<heap, g, grounding, queries, kb, query_cache>>
    /\ UNCHANGED searchVars

SamplesNext == GetSamples

SpecSamples == SamplesInit /\ [][SamplesNext]_vars

---------------------------------------------------------------------------
(* Properties of the samples *)

\* the number of times x is an element of the list s
Count(s, x) == Cardinality({ i \in 1..Len(s) : s[i] = x })

\* the graphs of a list of silver items
GraphsOf(items) == [i \in 1..Len(items) |-> items[i][1]]

ReturnedSet == ret.graph_lists[1]

\* C13: the target of a returned graph set is the position of a graph that
\* is one of the question's silver graphs with an F1 above the threshold.
C13_TargetIsCorrectParse ==
    (pc = "done" /\ ret.graph_lists # <<>>) =>
        \E i \in 1..Len(kb.silver_graphs) :
            /\ Len(kb.silver_graphs[i]) > 1
            /\ kb.silver_graphs[i][2] > f1_samples_threshold
            /\ ReturnedSet[ret.targets[1] + 1] = kb.silver_graphs[i][1]

\* C14: a returned graph set has max.negative.samples graphs: the kept
\* silver graphs and, for the rest, graphs of the negative pool, none more
\* often than the pool has it when the pool has as many graphs as are
\* needed, and some more often than that when it has fewer (the empty graph
\* when the pool is empty).
C14_SetSize ==
    (pc = "done" /\ ret.graph_lists # <<>>) =>
        LET kept == GraphsOf(SilverKept(kb.silver_graphs))
            negative_pool == NegativePool(kb.choice_graphs, SilverKept(kb.silver_graphs))
            needed == max_negative_samples - Len(kept)
            filler == [edgeSet |-> <<>>]
            all == { ReturnedSet[i] : i \in 1..Len(ReturnedSet) }
        IN  /\ Len(ReturnedSet) = max_negative_samples
            /\ \A i \in 1..Len(kept) : Count(ReturnedSet, kept[i]) = Count(kept, kept[i])
            /\ negative_pool # <<>> =>
                  all \subseteq { kept[i] : i \in 1..Len(kept) } \cup
                                { negative_pool[i] : i \in 1..Len(negative_pool) }
            /\ negative_pool = <<>> => Count(ReturnedSet, filler) = needed
            /\ Len(negative_pool) >= needed =>
                  \A x \in all : Count(ReturnedSet, x) <= Count(kept, x) + Count(negative_pool, x)
            /\ (negative_pool # <<>> /\ Len(negative_pool) < needed) =>
                  \E x \in all : Count(ReturnedSet, x) > Count(negative_pool, x) /\ Count(kept, x) = 0

\* two kept silver graphs and a pool of three for two negatives: sampled
\* without repetition
C14_Witness ==
    /\ pc = "done"
    /\ Len(kb.silver_graphs) = 3
    /\ kb.choice_graphs = << GraphN1, GraphN2, GraphN3 >>
    /\ ret.graph_lists # <<>>
    /\ Count(ReturnedSet, GraphN3) = 1
    /\ Count(ReturnedSet, GraphN1) = 1
    /\ Count(ReturnedSet, GraphC) = 0

---------------------------------------------------------------------------
(* The iterations of generate_with_gold *)

\* C15: a popped item with F1 >= 0.7 is appended as it is to the positive
\* results in the step that pops it; the iteration is over with that step
\* (no candidate is suggested, grounded or scored for it), nothing is pushed
\* onto the pool and the negatives stay as they are.
C15_AcceptedAsIs ==
    [][(pc = "loop" /\ pc' # "done" /\ pool # <<>> /\ F1Of(Head(pool)) >= AcceptF1) =>
          /\ positive_graphs' = Append(positive_graphs, Head(pool))
          /\ pool' = Tail(pool)
          /\ negative_graphs' = negative_graphs
          /\ pc' = "loop"
          /\ UNCHANGED <<suggested_graphs, chosen_graphs, input_graphs, not_chosen_graphs>>
      ]_vars

\* an item scoring exactly 0.7 was popped and is the last positive result,
\* with the other graph pushed with it still in the pool
C15_Witness ==
    /\ pc = "loop"
    /\ popped # <<>>
    /\ F1Of(popped) = AcceptF1
    /\ positive_graphs # <<>>
    /\ positive_graphs[Len(positive_graphs)] = popped
    /\ pool # <<>>

\* the groundings of a list that score more than the popped item, each with
\* its score
ScoredAbovePopped(grounded) ==
    LET above == SelectSeq(grounded, LAMBDA x : x.f1 > F1Of(popped))
    IN  [i \in 1..Len(above) |-> << above[i], above[i].f1 >>]

\* how many of the items score v or more
ScoringAtLeast(items, v) == Cardinality({ i \in 1..Len(items) : F1Of(items[i]) >= v })

\* best holds the three items of all that score most (all of them when
\* there are three at most), by F1 descending
AreBestThree(best, all) ==
    /\ Len(best) = IF Len(all) > 3 THEN 3 ELSE Len(all)
    /\ \A i \in 1..Len(best) : \E j \in 1..Len(all) : best[i] = all[j]
    /\ \A i \in 1..(Len(best) - 1) : F1Of(best[i]) >= F1Of(best[i + 1])
    /\ \A v \in { F1Of(all[j]) : j \in 1..Len(all) } :
          ScoringAtLeast(best, v) =
              IF ScoringAtLeast(all, v) > 3 THEN 3 ELSE ScoringAtLeast(all, v)

\* an iteration of generate_with_gold on an item with F1 below 0.7 changes
\* neither the pool nor the positive results before its last step, and its
\* last step either appends the chosen graphs (there is one at least) to the
\* tail of the pool and leaves the positive results, or, no graph being
\* chosen, appends the popped item to the positive results and leaves the
\* pool
PushesOrAccepts ==
    /\ (pc = "loop" /\ pc' # "done" /\ pool # <<>> /\ F1Of(Head(pool)) < AcceptF1) =>
           /\ pc' = "suggest"
           /\ popped' = Head(pool)
           /\ pool' = Tail(pool)
           /\ positive_graphs' = positive_graphs
    /\ (pc \in {"suggest", "expand", "ground_expanded"} /\ pc' # "loop") =>
           /\ pool' = pool
           /\ positive_graphs' = positive_graphs
           /\ popped' = popped
    /\ (pc \in {"suggest", "expand", "ground_expanded"} /\ pc' = "loop") =>
           /\ F1Of(popped) < AcceptF1
           /\ popped' = popped
           /\ chosen_graphs' = chosen_graphs
           /\ \/ /\ chosen_graphs # <<>>
                 /\ pool' = pool \o chosen_graphs
                 /\ positive_graphs' = positive_graphs
              \/ /\ chosen_graphs = <<>>
                 /\ pool' = pool
                 /\ positive_graphs' = Append(positive_graphs, popped)

\* C16 as it is stated: in an iteration of generate_with_gold on an item
\* with F1 below 0.7 either all the qualifying groundings that were found
\* (and nothing else) are appended to the tail of the pool and the positive
\* results stay, or none was found and the popped item is appended to the
\* positive results and the pool gains nothing.
C16_PushOrAccept ==
    [][(g = 0) =>
          /\ PushesOrAccepts
          /\ (pc = "suggest" /\ suggested_graphs' # suggested_graphs) =>
                 /\ Len(chosen_graphs') = Len(ScoredAbovePopped(grounded_graphs'))
                 /\ \A i \in 1..Len(chosen_graphs') :
                       \E j \in 1..Len(grounded_graphs') :
                           chosen_graphs'[i] = << grounded_graphs'[j], grounded_graphs'[j].f1 >>
          /\ (pc = "ground_expanded" /\ pc' = "suggest") =>
                 Len(chosen_graphs') = Len(chosen_graphs)
      ]_vars

\* C16, with the cut of lines 111-113: in an iteration of generate_with_gold
\* on an item with F1 below 0.7 the chosen graphs are the three best by F1
\* (all when there are three at most) of the qualifying groundings of the
\* candidate, or of the first of its expansions that has one; either there
\* is a chosen graph and the chosen graphs (and nothing else) are appended to
\* the tail of the pool while the positive results stay, or there is none and
\* the popped item is appended to the positive results while the pool gains
\* nothing.
C16_PushBestThree ==
    [][(g = 0) =>
          /\ PushesOrAccepts
          /\ (pc = "suggest" /\ suggested_graphs' # suggested_graphs) =>
                 AreBestThree(chosen_graphs', ScoredAbovePopped(grounded_graphs'))
          /\ (pc = "expand") => chosen_graphs' = chosen_graphs
          /\ (pc = "ground_expanded" /\ pc' = "ground_expanded") =>
                 /\ chosen_graphs = <<>>
                 /\ chosen_graphs' = ScoredAbovePopped(grounded_graphs')
          /\ (pc = "ground_expanded" /\ pc' = "suggest") =>
                 AreBestThree(chosen_graphs', chosen_graphs)
      ]_vars

\* the item scoring 0 was popped and a candidate had four groundings that
\* score more; the three best of them are the pool, and the item is not
\* among the positive results
C16_Witness ==
    /\ g = 0
    /\ pc = "loop"
    /\ popped # <<>>
    /\ F1Of(popped) = 0
    /\ Len(pool) = 3
    /\ F1Of(pool[1]) = 950
    /\ F1Of(pool[2]) = AcceptF1
    /\ F1Of(pool[3]) = 400
    /\ positive_graphs = <<>>
    /\ negative_graphs = <<>>

---------------------------------------------------------------------------
(* Specification of one call of ground_with_gold *)

\* most groundings of one input graph in a call of ground_with_gold
MaxGrounded == 4

\* the F1 values of the groundings: none, between 0 and 0.01, 0.4 and 0.7
GroundF1Values == {0, 5, 400, 700}

\* min_fscore: the default 0.0, or the F1 of the master graph
MinFScoreInputs == {0, 400}

\* the lists of input graphs
InputGraphInputs == { <<>>, << "s1" >>, << "s1", "s2" >> }

\* the grounded graphs of one input graph, each with the F1 it scores; id is
\* its position among the groundings of the graph
GroundedInputs ==
    UNION { { [i \in 1..n |-> [f1 |-> f[i], id |-> i]] : f \in [1..n -> GroundF1Values] } :
            n \in 0..MaxGrounded }

GroundInit ==
    \E graphs \in InputGraphInputs, min_fscore \in MinFScoreInputs :
        /\ input_graphs = graphs
        /\ popped = << [f1 |-> min_fscore], min_fscore >>
        /\ chosen_graphs = <<>>
        /\ not_chosen_graphs = <<>>
        /\ grounded_graphs = <<>>
        /\ pool = <<>>
        /\ positive_graphs = <<>>
        /\ negative_graphs = <<>>
        /\ suggested_graphs = <<>>
        /\ generated_graphs = <<>>
        /\ pc = "ground_with_gold"
        /\ ret = <<>>
        /\ CallIdle

\* lines 106-110 and 119-135: the next input graph is popped, grounded
\* (grounded_graphs of ground_one_with_gold) and scored.  find_groundings
\* and the backend are not part of this step: the groundings of the graph
\* are an input, and the backend's log is left alone.
GroundOne ==
    /\ pc = "ground_with_gold"
    /\ input_graphs # <<>> /\ Len(chosen_graphs) = 0
    /\ \E grounded \in GroundedInputs :
        /\ grounded_graphs' = grounded
        /\ LET r == ground_one_with_gold(grounded, F1Of(popped))
           IN  /\ chosen_graphs' = chosen_graphs \o r.chosen
               /\ not_chosen_graphs' = not_chosen_graphs \o r.not_chosen
    /\ input_graphs' = Tail(input_graphs)
    /\ UNCHANGED <<pc, ret, pool, positive_graphs, negative_graphs, popped,
                   suggested_graphs, generated_graphs>>
    /\ UNCHANGED callVars

\* lines 111-115
GroundReturn ==
    /\ pc = "ground_with_gold"
    /\ ~(input_graphs # <<>> /\ Len(chosen_graphs) = 0)
    /\ ret' = [chosen |-> TopChosen(chosen_graphs), not_chosen |-> not_chosen_graphs]
    /\ pc' = "done"
    /\ UNCHANGED searchVars
    /\ UNCHANGED callVars

GroundNext ==
    \/ GroundOne
    \/ GroundReturn

SpecGround == GroundInit /\ [][GroundNext]_vars

---------------------------------------------------------------------------
(* Properties of ground_with_gold *)

\* the groundings of the graph grounded last that score more than min_fscore
Qualifying == SelectSeq(grounded_graphs, LAMBDA x : x.f1 > F1Of(popped))

\* C17: a graph is grounded only while no chosen graph was found, the input
\* graphs being taken in their order; ground_with_gold returns at most three
\* chosen graphs, each scoring more than min_fscore, by F1 descending, and
\* they are groundings of the graph grounded last, none of whose other
\* groundings scores more than one of them; the input graphs left when a
\* chosen graph was found are not grounded.
C17_TopThree ==
    [][/\ (input_graphs' # input_graphs) =>
              /\ chosen_graphs = <<>>
              /\ input_graphs' = Tail(input_graphs)
       /\ (pc = "ground_with_gold" /\ pc' = "done") =>
              LET chosen == ret'.chosen
              IN  /\ Len(chosen) <= MaxChosen
                  /\ Len(chosen) = IF Len(Qualifying) < MaxChosen
                                   THEN Len(Qualifying) ELSE MaxChosen
                  /\ \A i \in 1..Len(chosen) :
                        /\ F1Of(chosen[i]) > F1Of(popped)
                        /\ \E k \in 1..Len(Qualifying) :
                              chosen[i] = << Qualifying[k], Qualifying[k].f1 >>
                        /\ \A j \in 1..Len(chosen) : chosen[i] = chosen[j] => i = j
                  /\ \A i \in 1..(Len(chosen) - 1) : F1Of(chosen[i]) >= F1Of(chosen[i + 1])
                  /\ \A k \in 1..Len(Qualifying) :
                        (\A i \in 1..Len(chosen) : chosen[i][1] # Qualifying[k]) =>
                            \A i \in 1..Len(chosen) : F1Of(chosen[i]) >= Qualifying[k].f1
                  /\ chosen = <<>> => input_graphs = <<>>
                  /\ input_graphs' = input_graphs
      ]_vars

\* four groundings of the first graph qualify; the three best are returned,
\* the one scoring 0.4 that comes first is not, and the second graph is not
\* grounded
C17_Witness ==
    /\ pc = "done"
    /\ F1Of(popped) = 0
    /\ Len(grounded_graphs) = 4
    /\ grounded_graphs[1].f1 = 400
    /\ Len(Qualifying) = 4
    /\ ret.chosen = << << grounded_graphs[2], 700 >>, << grounded_graphs[3], 700 >>,
                       << grounded_graphs[4], 700 >> >>
    /\ input_graphs = << "s2" >>

---------------------------------------------------------------------------
(* The negative results of generate_with_gold *)

\* the groundings of a list that score below 0.01, as one-element tuples
ScoredBelowNegative(grounded) ==
    LET below == SelectSeq(grounded, LAMBDA x : x.f1 < NegativeF1)
    IN  [i \in 1..Len(below) |-> << below[i] >>]

\* C18: the groundings scoring below 0.01 among those evaluated in a step
\* are appended, in their order, to the negatives (those of a running
\* ground_with_gold call when that call returns); no other step changes the
\* negatives, so they hold nothing else; and the function returns the
\* positive results, each with its score, followed by the negatives, each a
\* one-element tuple.
C18_NegativesKept ==
    [][(g = 0) =>
          /\ (pc = "suggest" /\ suggested_graphs' # suggested_graphs) =>
                 negative_graphs' = negative_graphs \o ScoredBelowNegative(grounded_graphs')
          /\ (pc = "ground_expanded" /\ pc' = "ground_expanded") =>
                 /\ not_chosen_graphs' =
                        not_chosen_graphs \o ScoredBelowNegative(grounded_graphs')
                 /\ negative_graphs' = negative_graphs
          /\ (pc = "ground_expanded" /\ pc' = "suggest") =>
                 negative_graphs' = negative_graphs \o not_chosen_graphs
          /\ (pc # "ground_expanded") => not_chosen_graphs = <<>>
          /\ (pc \in {"loop", "expand"} \/ (pc = "suggest" /\ pc' = "loop")) =>
                 negative_graphs' = negative_graphs
          /\ (pc = "loop" /\ pc' = "done") =>
                 /\ ret' = positive_graphs \o negative_graphs
                 /\ \A i \in 1..Len(positive_graphs) :
                       /\ Len(positive_graphs[i]) = 2
                       /\ positive_graphs[i][2] = positive_graphs[i][1].f1
                 /\ \A i \in 1..Len(negative_graphs) :
                       /\ Len(negative_graphs[i]) = 1
                       /\ negative_graphs[i][1].f1 < NegativeF1
      ]_vars

\* the function returned after two steps met a negative grounding each: one
\* scoring 0 and then one scoring 0.005, which scored more than the popped
\* item as well and is the positive result; the result is the positive one
\* followed by the two negatives in the order they were met
C18_Witness ==
    /\ g = 0
    /\ pc = "done"
    /\ positive_graphs = << << [f1 |-> 5], 5 >> >>
    /\ negative_graphs = << << [f1 |-> 0] >>, << [f1 |-> 5] >> >>
    /\ ret = << << [f1 |-> 5], 5 >>, << [f1 |-> 0] >>, << [f1 |-> 5] >> >>

---------------------------------------------------------------------------
(* The candidates of one iteration of generate_with_gold *)

\* C19: a restricted candidate is grounded only while no graph is chosen,
\* and it is the first of the candidates left; its expansions are produced
\* and grounded only when none of its own groundings scored more than the
\* popped item; and once a graph is chosen the iteration ends with its next
\* step, the candidates left being neither grounded nor expanded.
C19_FirstCandidateWins ==
    [][/\ (pc = "suggest" /\ pc' # "loop") =>
              /\ chosen_graphs = <<>>
              /\ suggested_graphs # <<>>
              /\ suggested_graphs' = Tail(suggested_graphs)
              /\ pc' = "expand" <=>
                     \A i \in 1..Len(grounded_graphs') : grounded_graphs'[i].f1 <= F1Of(popped)
              /\ pc' = "suggest" <=> chosen_graphs' # <<>>
       /\ (pc = "suggest" /\ chosen_graphs # <<>>) =>
              /\ pc' = "loop"
              /\ suggested_graphs' = suggested_graphs
              /\ input_graphs' = input_graphs
       /\ (pc = "expand") =>
              /\ chosen_graphs = <<>>
              /\ pc' = "ground_expanded"
              /\ suggested_graphs' = suggested_graphs
       /\ (pc = "ground_expanded" /\ pc' = "ground_expanded") =>
              /\ chosen_graphs = <<>>
              /\ input_graphs # <<>> /\ input_graphs' = Tail(input_graphs)
              /\ suggested_graphs' = suggested_graphs
       /\ (pc = "ground_expanded" /\ chosen_graphs # <<>>) =>
              /\ pc' = "suggest"
              /\ suggested_graphs' = suggested_graphs
       /\ (pc # "ground_expanded" /\ pc' = "ground_expanded") => pc = "expand"
      ]_vars

\* the expansions of the first candidate gave a chosen graph; the second
\* candidate is left and the iteration is about to end
C19_Witness ==
    /\ pc = "suggest"
    /\ chosen_graphs # <<>>
    /\ suggested_graphs = << 2 >>
    /\ grounded_graphs = <<>>
    /\ F1Of(popped) = 400

---------------------------------------------------------------------------
(* The order of the pool *)

\* C20: every step of either search controller that changes the pool takes
\* its first item or appends items at its tail.  In generate_without_gold
\* one step pops the first graph and appends the suggested graphs: the
\* graphs that were behind the popped one stay in front, in their order, and
\* a graph that is pushed is a new object, so it was never in the pool before
\* and is popped once at most.  In generate_with_gold a step pops the first
\* item, and a later step of the same iteration appends the chosen graphs
\* behind the items that are in the pool.
C20_PoolIsFifo ==
    [][(pool' # pool) =>
          IF g # 0
          THEN /\ pool # <<>>
               /\ popped' = Head(pool)
               /\ Len(pool') >= Len(pool) - 1
               /\ SubSeq(pool', 1, Len(pool) - 1) = Tail(pool)
               /\ \A i \in Len(pool)..Len(pool') : pool'[i] \notin 1..Len(heap)
               /\ \A i, j \in 1..Len(pool') : pool'[i] = pool'[j] => i = j
               /\ \A i \in 1..Len(pool') : pool'[i] # popped'
          ELSE \/ /\ pc = "loop"
                  /\ pool # <<>>
                  /\ pool' = Tail(pool)
                  /\ popped' = Head(pool)
               \/ /\ pc = "suggest"
                  /\ Len(pool') > Len(pool)
                  /\ SubSeq(pool', 1, Len(pool)) = pool
                  /\ popped' = popped
      ]_vars

\* generate_without_gold popped the first graph of the first iteration and
\* pushed a graph with a second edge: the pool holds the second graph of the
\* first iteration in front of the graph pushed in the second iteration
C20_Witness ==
    /\ g # 0
    /\ pc = "loop"
    /\ Len(generated_graphs) = 3
    /\ popped = generated_graphs[1]
    /\ pool = << generated_graphs[2], generated_graphs[3] >>
    /\ Len(EdgeSetOf(heap, pool[1])) = 1
    /\ Len(EdgeSetOf(heap, pool[2])) = 2

\* generate_with_gold pushed two graphs in its first iteration, accepted the
\* first of them and pushed the groundings of the second behind nothing
\* else; the items pushed first were popped first
GoldPoolInOrder ==
    /\ g = 0
    /\ pc = "loop"
    /\ Len(positive_graphs) = 1
    /\ F1Of(positive_graphs[1]) = AcceptF1
    /\ F1Of(popped) = 400
    /\ Len(pool) = 1
    /\ F1Of(pool[1]) = 950

---------------------------------------------------------------------------
(* The existence check of generate_without_gold *)

\* the entities the edges of the graph at address a lead to
RightIds(h, a) ==
    [k \in 1..Len(EdgeSetOf(h, a)) |-> Get(h[EdgeSetOf(h, a)[k]], "rightkbID", "")]

\* the graph at address r has the edges of the graph at address a, which
\* passes the existence check, and has no entity mentions
GroundingOfVerified(h, r, a) ==
    /\ verify_grounding(h, a, kb)
    /\ RightIds(h, r) = RightIds(h, a)
    /\ Get(h[r], "entities", <<>>) = <<>>

\* C21: while the pool is processed no generated graph loses its entity
\* mentions and no grounding query is made; the graphs handed to the
\* grounding are the generated graphs that pass the existence check, in
\* their order, with their mentions deleted in that step; every graph a
\* grounding step adds is a grounding of the graph grounded in that step;
\* and every graph returned is a grounding of a generated graph that passed
\* the check and has no mentions.
C21_OnlyVerifiedGrounded ==
    [][/\ (pc = "loop") =>
              /\ queries = <<>> /\ grounded_graphs = <<>>
              /\ \A i \in 1..Len(generated_graphs) :
                    Has(heap[generated_graphs[i]], "entities")
       /\ (pc = "loop" /\ pc' = "ground") =>
              /\ pool = <<>>
              /\ input_graphs' = SelectSeq(generated_graphs,
                                           LAMBDA a : verify_grounding(heap, a, kb))
              /\ generated_graphs' = input_graphs'
              /\ \A i \in 1..Len(input_graphs') :
                    ~Has(heap'[input_graphs'[i]], "entities")
              /\ \A i \in 1..Len(generated_graphs) :
                    ~verify_grounding(heap, generated_graphs[i], kb) =>
                        heap'[generated_graphs[i]] = heap[generated_graphs[i]]
       /\ (pc = "ground" /\ input_graphs' # input_graphs) =>
              /\ \E i \in 1..Len(generated_graphs) : generated_graphs[i] = Head(input_graphs)
              /\ ~Has(heap[Head(input_graphs)], "entities")
              /\ \A i \in (Len(grounded_graphs) + 1)..Len(grounded_graphs') :
                    GroundingOfVerified(heap', grounded_graphs'[i], Head(input_graphs))
       /\ (pc = "ground" /\ pc' = "done") =>
              \A i \in 1..Len(ret') :
                  \E j \in 1..Len(generated_graphs) :
                      GroundingOfVerified(heap, ret'[i], generated_graphs[j])
      ]_vars

\* one of two generated graphs failed the existence check: it still has its
\* mentions and was not grounded, and a grounding of the other was returned
C21_Witness ==
    /\ pc = "done"
    /\ kb.missing = "Q2"
    /\ Len(generated_graphs) = 1
    /\ ret # <<>>
    /\ \E a \in 1..Len(heap) :
          /\ Has(heap[a], "entities")
          /\ RightIds(heap, a) = << "Q2" >>
          /\ ~verify_grounding(heap, a, kb)

---------------------------------------------------------------------------
(* The end of generate_without_gold *)

\* C22: generate_without_gold leaves its loop only with the pool empty (an
\* iteration pops one graph and makes no existence check and no grounding
\* query), the existence check and the grounding come after that, and when
\* the last graph is grounded the function returns.
C22_ReturnsAfterPool ==
    [][/\ (pc = "loop" /\ pool # <<>>) =>
              /\ pc' = "loop"
              /\ popped' = Head(pool)
              /\ queries' = queries
              /\ input_graphs' = <<>> /\ grounded_graphs' = <<>>
       /\ (pc = "loop" /\ pc' # "loop") => (pool = <<>> /\ pc' = "ground")
       /\ (pc = "ground") => pool = <<>>
       /\ (pc = "ground" /\ input_graphs # <<>>) =>
              (pc' = "ground" \/ (pc' = "failed" /\ kb.edgeFails))
       /\ (pc = "ground" /\ input_graphs = <<>>) => pc' = "done"
      ]_vars

\* what holds of the code: the same order, with a return or the TypeError
\* of line 301 at the end
C22_PoolExhaustedFirst ==
    [][/\ (pc = "loop" /\ pool # <<>>) =>
              /\ pc' = "loop"
              /\ popped' = Head(pool)
              /\ queries' = queries
              /\ input_graphs' = <<>> /\ grounded_graphs' = <<>>
       /\ (pc = "loop" /\ pc' # "loop") => (pool = <<>> /\ pc' = "ground")
       /\ (pc = "ground") => pool = <<>>
       /\ (pc = "ground" /\ input_graphs # <<>>) =>
              (pc' = "ground" \/ (pc' = "failed" /\ kb.edgeFails))
       /\ (pc = "ground" /\ input_graphs = <<>>) => pc' \in {"done", "raised"}
      ]_vars

\* three iterations emptied the pool, both generated graphs passed the
\* check and were grounded, and the function returned
C22_Witness ==
    /\ pc = "done"
    /\ pool = <<>>
    /\ Len(generated_graphs) = 2
    /\ Len(queries) >= 2
    /\ popped = generated_graphs[2]

---------------------------------------------------------------------------
(* The backend's query cache in generate_without_gold *)

\* C23: a run of generate_without_gold that returns has cleared the
\* backend's query cache exactly once: the cache is cleared in the step that
\* returns and in no other, that step makes no query and leaves no graph to
\* ground, it leaves the cache without any entry, and nothing happens after
\* it; so the cache the next run finds holds no entry of this run.
C23_CacheClearedOnce ==
    [][/\ (pc # "done" => query_cache.cleared = 0)
       /\ (pc' # "done" => query_cache'.cleared = query_cache.cleared)
       /\ (pc # "done" /\ pc' = "done" =>
              /\ pc = "ground" /\ input_graphs = <<>>
              /\ queries' = queries
              /\ query_cache'.cleared = 1
              /\ query_cache'.entries = <<>>)
       /\ (pc = "done" => /\ query_cache.cleared = 1
                          /\ query_cache.entries = <<>>
                          /\ vars' = vars)
       /\ (query_cache'.entries # query_cache.entries /\ pc' # "done" =>
              /\ pc = "ground" /\ input_graphs # <<>>
              /\ \A i \in 1..Len(query_cache'.entries) :
                     \E k \in 1..Len(queries') :
                         queries'[k] = query_cache'.entries[i])]_vars

\* a run whose joint queries failed, so that the single-edge queries wrote
\* cache entries, has returned groundings and the cache is empty
C23_Witness ==
    /\ pc = "done"
    /\ kb.joint["direct"] = "fail"
    /\ Len(queries) >= 4
    /\ ret # <<>>
    /\ query_cache = [entries |-> <<>>, cleared |-> 1]
---------------------------------------------------------------------------
(* The two outcomes of ground_one_with_gold *)

\* the positions of the chosen outcomes of a scoring step whose grounding
\* is among the negative outcomes of that step
ChosenAndNegative(chosen, not_chosen) ==
    { i \in 1..Len(chosen) : \E j \in 1..Len(not_chosen) : chosen[i][1] = not_chosen[j][1] }

\* C24: no grounding evaluated in a scoring step is added both to the chosen
\* graphs and to the negative graphs of that step, whatever min_fscore and
\* the F1 values are.
C24_ChosenNotNegative ==
    [][input_graphs' # input_graphs =>
          ChosenAndNegative(
              SubSeq(chosen_graphs', Len(chosen_graphs) + 1, Len(chosen_graphs')),
              SubSeq(not_chosen_graphs', Len(not_chosen_graphs) + 1,
                     Len(not_chosen_graphs'))) = {}]_vars

\* C24 as the code has it: the chosen outcomes of a scoring step are the
\* evaluated groundings with F1 above min_fscore and its negative outcomes
\* are those with F1 below 0.01, each in the order of evaluation and
\* whatever the other test says; a grounding is in both exactly when
\* min_fscore < F1 < 0.01, so the two are disjoint when min_fscore is 0.01
\* or more and only then for every F1 value.
C24_OutcomesIndependent ==
    [][input_graphs' # input_graphs =>
          LET newChosen   == SubSeq(chosen_graphs', Len(chosen_graphs) + 1,
                                    Len(chosen_graphs'))
              newNegative == SubSeq(not_chosen_graphs', Len(not_chosen_graphs) + 1,
                                    Len(not_chosen_graphs'))
              above       == SelectSeq(grounded_graphs', LAMBDA x : x.f1 > F1Of(popped))
              below       == SelectSeq(grounded_graphs', LAMBDA x : x.f1 < NegativeF1)
          IN  /\ newChosen = [i \in 1..Len(above) |-> << above[i], above[i].f1 >>]
              /\ newNegative = [i \in 1..Len(below) |-> << below[i] >>]
              /\ ChosenAndNegative(newChosen, newNegative) =
                     { i \in 1..Len(newChosen) : newChosen[i][1].f1 < NegativeF1 }
              /\ (F1Of(popped) >= NegativeF1 =>
                     ChosenAndNegative(newChosen, newNegative) = {})]_vars

\* with min_fscore 0.0 a grounding of F1 0.005 is chosen and negative
C24_BothOutcomes ==
    /\ pc = "done"
    /\ F1Of(popped) = 0
    /\ \E i \in 1..Len(ret.chosen), j \in 1..Len(ret.not_chosen) :
           /\ ret.chosen[i][1] = ret.not_chosen[j][1]
           /\ ret.chosen[i][1].f1 = 5
====
